---- MODULE Spec2Model ----
(***************************************************************************)
(* A model of the ocean-terminology pipeline: the term-definition matcher  *)
(* (src/src/utils.py, src/scripts/extract_terms.py), the relationship      *)
(* classifier (src/src/rules.py, src/scripts/associate_terms.py), the      *)
(* output validator (src/scripts/validate_output.py) and the entry point   *)
(* that chains them (src/app.py).                                          *)
(*                                                                         *)
(* A Python str is a sequence of characters; a character is a short ASCII  *)
(* token.  An ASCII character is its own token; the other characters are:  *)
(*   "F." 。 U+3002   "F!" ！ U+FF01   "F?" ？ U+FF1F   "F," ， U+FF0C        *)
(*   "F:" ： U+FF1A   "F;" ； U+FF1B   "DUN" 、 U+3001                       *)
(*   "di" 第  "ye" 页                                                       *)
(*   "hai" 海  "yang" 洋  "zai" 灾  "hai4" 害  "you" 由  "zi" 自  "ran" 然    *)
(*   "huan" 环 "jing" 境  "yi4" 异  "chang" 常 "huo" 或  "ju" 剧  "lie" 烈    *)
(*   "bian" 变 "hua" 化   "feng" 风 "bao" 暴   "chao" 潮 "hui" 会 "an" 岸    *)
(*   "qin" 侵  "shi2" 蚀  "lang" 浪 "xiao4" 啸                              *)
(*   "shi" 是  "zhi" 指   "ding" 定 "yi" 义    "wei" 为  "ji" 即  "de" 的    *)
(*   "biao" 表 "shi4" 示                                                    *)
(*   "bao1" 包 "kuo" 括   "han" 含  "han2" 涵  "gai" 盖  "zu" 组  "cheng" 成 *)
(*   "fen" 分  "lei" 类   "bie" 别  "xing" 型  "ceng" 层 "ci" 次  "ji2" 级   *)
(*   "shu" 属  "yu" 于    "li" 隶   "gui" 归   "ru" 入   "na" 纳            *)
(*   "dao" 导  "zhi4" 致  "yin3" 引 "qi" 起    "zao" 造  "chan" 产          *)
(*   "sheng" 生 "fa" 发   "yin" 因  "jian" 鉴  "ji1" 基  "suo" 所 "yi3" 以   *)
(*   "ci3" 此  "er" 而    "gu" 故   "ying" 影  "xiang" 响 "zuo" 作          *)
(*   "yong" 用 "xiao" 效  "ying4" 应 "guo" 果  "yu3" 与  "he" 和            *)
(*   "guan" 关 "xi" 系                                                      *)
(***************************************************************************)
EXTENDS Integers, Sequences, FiniteSets, TLC

-----------------------------------------------------------------------------
(* Character classes of the regular expressions. *)

\* [。！？]
Terminal == {"F.", "F!", "F?"}

\* \s
Whitespace == {" ", "\n"}

\* \d
Digit == {"0", "1", "2", "3", "4", "5", "6", "7", "8", "9"}

\* [，。！？：；\s]: what ends a term token in the rule patterns
TermStop == {"F,", "F.", "F!", "F?", "F:", "F;"} \cup Whitespace

\* 一-鿿
Han ==
    {"di", "ye", "hai", "yang", "zai", "hai4", "you", "zi", "ran", "huan",
     "jing", "yi4", "chang", "huo", "ju", "lie", "bian", "hua", "feng", "bao",
     "chao", "hui", "an", "qin", "shi2", "lang", "xiao4", "shi", "zhi", "ding",
     "yi", "wei", "ji", "de", "biao", "shi4", "bao1", "kuo", "han", "han2",
     "gai", "zu", "cheng", "fen", "lei", "bie", "xing", "ceng", "ci", "ji2",
     "shu", "yu", "li", "gui", "ru", "na", "dao", "zhi4", "yin3", "qi", "zao",
     "chan", "sheng", "fa", "yin", "jian", "ji1", "suo", "yi3", "ci3", "er",
     "gu", "ying", "xiang", "zuo", "yong", "xiao", "ying4", "guo", "yu3", "he",
     "guan", "xi"}

\* \w: letters, digits and the underscore, and every CJK ideograph
WordChar == Han \cup Digit \cup {"p", "a", "g", "e", "d", "f", "P", "x", "_"}

\* what clean_text's second substitution keeps (src/src/utils.py:75); the
\* other fullwidth brackets of the class are not characters of this model
CleanKeep == Han \cup WordChar \cup Whitespace
             \cup {"F,", "F.", "F!", "F?", "F;", "F:", "\""}

-----------------------------------------------------------------------------
(* Python str operations. *)

\* Python's None, for a result that is a str or None
None == <<"None">>

\* s[i:] starts with p (i is 1-based)
StartsAt(s, p, i) ==
    /\ i + Len(p) - 1 <= Len(s)
    /\ \A k \in 1..Len(p) : s[i + k - 1] = p[k]

\* p in s
Contains(s, p) == \E i \in 1..(Len(s) + 1) : StartsAt(s, p, i)

\* any(k in s for k in ks)
ContainsAny(s, ks) == \E k \in ks : Contains(s, k)

\* the end (exclusive) of the longest run of characters of class cls from i
RunEnd(s, i, cls) ==
    CHOOSE j \in i..(Len(s) + 1) :
        /\ \A k \in i..(j - 1) : s[k] \in cls
        /\ (j = Len(s) + 1 \/ s[j] \notin cls)

\* the start of the longest run of characters of class cls that ends at j
RunStart(s, j, cls) ==
    CHOOSE i \in 1..(j + 1) :
        /\ \A k \in i..j : s[k] \in cls
        /\ (i = 1 \/ s[i - 1] \notin cls)

\* the end (exclusive) of the longest run of characters outside cls from i
RunEndNot(s, i, cls) ==
    CHOOSE j \in i..(Len(s) + 1) :
        /\ \A k \in i..(j - 1) : s[k] \notin cls
        /\ (j = Len(s) + 1 \/ s[j] \in cls)

\* LET x == value IN Body(x), with value written and evaluated once
With(value, Body(_)) == Body(value)

\* the largest element of a non-empty set of integers
Max(S) == CHOOSE a \in S : \A b \in S : a >= b

\* the smallest element of a non-empty set of integers
Min(S) == CHOOSE a \in S : \A b \in S : a <= b

\* s.strip()
Strip(s) ==
    LET a == RunEnd(s, 1, Whitespace)
    IN  IF a > Len(s) THEN <<>>
        ELSE SubSeq(s, a, RunStart(s, Len(s), Whitespace) - 1)

\* the characters of s that satisfy keep, in order
RECURSIVE Filter(_, _)
Filter(s, keep) ==
    IF s = <<>> THEN <<>>
    ELSE (IF Head(s) \in keep THEN <<Head(s)>> ELSE <<>>)
         \o Filter(Tail(s), keep)

\* s.replace(c, d) for single characters
Replace(s, c, d) == [k \in 1..Len(s) |-> IF s[k] = c THEN d ELSE s[k]]

\* concatenation of a sequence of strings: ''.join(ss)
RECURSIVE Join(_)
Join(ss) == IF ss = <<>> THEN <<>> ELSE Head(ss) \o Join(Tail(ss))

-----------------------------------------------------------------------------
(* Python floats.  A double x of the scores is the pair <<K, r>> with      *)
(* x = K/10 + r / (10 * 2^56): K counts tenths and r is the distance of x  *)
(* from K/10 in units of 2^-56 / 10.  FAdd is IEEE-754 addition (round to  *)
(* nearest, ties to even) on that representation.                          *)

\* r of the double nearest to K/10, K = 0..20
TenthErr ==
    <<4, 8, -8, 16, 0, -16, -32, 32, 16, 0,
      64, -32, 32, -64, 0, 64, -32, 32, -64, 0>>

\* the float literal K/10 (0.3 is Dbl(3))
Dbl(K) == IF K = 0 THEN <<0, 0>> ELSE <<K, TenthErr[K]>>

\* the unit in the last place of a value in units of 2^-56
Ulp(K, r) ==
    IF K > 10 \/ (K = 10 /\ r >= 0) THEN 16
    ELSE IF K > 5 \/ (K = 5 /\ r >= 0) THEN 8
    ELSE IF K >= 3 THEN 4
    ELSE IF K = 2 THEN 2
    ELSE 1

\* 2^56 / u modulo 20, for u a unit in the last place
Pow56Mod20(u) ==
    CASE u = 1 -> 16 [] u = 2 -> 8 [] u = 4 -> 4 [] u = 8 -> 12 [] u = 16 -> 16

\* x + y
FAdd(x, y) ==
    LET K == x[1] + y[1]
        r == x[2] + y[2]
    IN  IF K = 0 THEN <<0, 0>>
        ELSE With(Ulp(K, r), LAMBDA u :
             With((K * u * Pow56Mod20(u) + r) % (20 * u), LAMBDA m :
             With(m % (10 * u), LAMBDA rem :
                IF rem * 2 < 10 * u \/ (rem * 2 = 10 * u /\ m < 10 * u)
                THEN <<K, r - rem>>
                ELSE <<K, r + 10 * u - rem>>)))

\* x < y, x <= y, x > y, x >= y
FLt(x, y) == x[1] < y[1] \/ (x[1] = y[1] /\ x[2] < y[2])
FLe(x, y) == x = y \/ FLt(x, y)
FGt(x, y) == FLt(y, x)
FGe(x, y) == FLe(y, x)

\* min(x, y) and max(x, y) as Python evaluates them (the first on a tie)
FMin(x, y) == IF FLt(y, x) THEN y ELSE x
FMax(x, y) == IF FGt(y, x) THEN y ELSE x

-----------------------------------------------------------------------------
(* src/src/utils.py *)

\* re.sub(r'\s+', ' ', text): every run of whitespace becomes one space
RECURSIVE CollapseWs(_)
CollapseWs(s) ==
    IF s = <<>> THEN <<>>
    ELSE IF Head(s) \in Whitespace
         THEN <<" ">> \o CollapseWs(SubSeq(s, RunEnd(s, 1, Whitespace), Len(s)))
         ELSE <<Head(s)>> \o CollapseWs(Tail(s))

\* clean_text(text)
clean_text(text) ==
    IF text = <<>> THEN <<>>
    ELSE Strip(Replace(Replace(Filter(CollapseWs(text), CleanKeep),
                               "\"", "\""), "'", "'"))

\* the groups of a page pattern whose digits start at position p: <<g1, g2>>
\* with g2 = None when the optional range part does not match
PageGroups(s, p) ==
    LET e1 == RunEnd(s, p, Digit)
        hasRange == /\ e1 + 1 <= Len(s)
                    /\ s[e1] \in {"-", "~"}
                    /\ s[e1 + 1] \in Digit
    IN  <<SubSeq(s, p, e1 - 1),
          IF hasRange THEN SubSeq(s, e1 + 1, RunEnd(s, e1 + 1, Digit) - 1)
          ELSE None>>

\* the positions where the digits of page pattern n can start when the match
\* starts at position i (the pattern's prefix ends just before them)
PagePrefixEnds(s, i, n) ==
    CASE n = 1 -> {i} \cup (IF StartsAt(s, <<"di">>, i) THEN {i + 1} ELSE {})
      [] n = 2 -> IF /\ i + 3 <= Len(s)
                     /\ s[i] \in {"p", "P"} /\ s[i + 1] = "a"
                     /\ s[i + 2] = "g" /\ s[i + 3] = "e"
                  THEN {RunEnd(s, i + 4, Whitespace)} ELSE {}
      [] n = 3 -> IF i <= Len(s) /\ s[i] \in {"p", "P"}
                  THEN {RunEnd(s, i + 1, Whitespace)}
                       \cup (IF StartsAt(s, <<".">>, i + 1)
                             THEN {RunEnd(s, i + 2, Whitespace)} ELSE {})
                  ELSE {}

\* re.search(page_patterns[n], s, re.IGNORECASE): the groups of the leftmost
\* match, or None
PageSearch(s, n) ==
    With({i \in 1..Len(s) :
            \E p \in PagePrefixEnds(s, i, n) : p <= Len(s) /\ s[p] \in Digit},
         LAMBDA starts :
            IF starts = {} THEN None
            \* the optional prefix parts are greedy: the longest prefix
            ELSE PageGroups(s, Max({p \in PagePrefixEnds(s, Min(starts), n) :
                                      p <= Len(s) /\ s[p] \in Digit})))

\* a label that closes the first page before the range: 第{start}页-{end}
PageLabelSplit(g) ==
    IF g[2] # None /\ g[2] # <<>>
    THEN <<"di">> \o g[1] \o <<"ye", "-">> \o g[2]
    ELSE <<"di">> \o g[1] \o <<"ye">>

\* the label built from the groups of a match
PageLabel(g) ==
    IF g[2] # None /\ g[2] # <<>>
    THEN <<"di">> \o g[1] \o <<"-">> \o g[2] \o <<"ye">>
    ELSE <<"di">> \o g[1] \o <<"ye">>

\* format_page_number(page_info)
format_page_number(page_info) ==
    IF page_info = <<>> THEN <<>>
    ELSE With({n \in 1..3 : PageSearch(page_info, n) # None},
              LAMBDA matching :
                 IF matching = {} THEN page_info
                 ELSE PageLabel(PageSearch(page_info, Min(matching))))


\* s.split(c) for a set of separator characters, as re.split(r'[...]', s)
RECURSIVE Split(_, _)
Split(s, seps) ==
    LET e == RunEndNot(s, 1, seps)
    IN  IF e > Len(s) THEN <<s>>
        ELSE <<SubSeq(s, 1, e - 1)>> \o Split(SubSeq(s, e + 1, Len(s)), seps)

\* Path(filename).stem: the last path component without its last suffix
PathStem(filename) ==
    With(SelectSeq(Split(filename, {"/"}), LAMBDA c : c # <<>> /\ c # <<".">>),
         LAMBDA parts :
    With(IF parts = <<>> THEN <<>> ELSE parts[Len(parts)], LAMBDA name :
    With({i \in 1..Len(name) : name[i] = "."}, LAMBDA dots :
        IF dots # {} /\ 1 < Max(dots) /\ Max(dots) < Len(name)
        THEN SubSeq(name, 1, Max(dots) - 1)
        ELSE name)))

\* standardize_document_name(filename)
standardize_document_name(filename) ==
    IF filename = <<>> THEN <<>>
    ELSE Replace(PathStem(filename), "_", "-")

\* the link part of each anchored definition pattern, in list order
\* (definition_patterns of extract_term_definition): [：:], 是指, 定义为, 为, 即
definition_patterns ==
    << {<<"F:">>, <<":">>}, {<<"shi", "zhi">>}, {<<"ding", "yi", "wei">>},
       {<<"wei">>}, {<<"ji">>} >>

\* group 1 of the match of  term \s* link \s* (.+[。！？])  that starts at
\* position s, or None: a capture that runs to the last terminal of the text
DefMatchAtGreedy(text, term, link, s) ==
    IF ~StartsAt(text, term, s) THEN None
    ELSE With(RunEnd(text, s + Len(term), Whitespace), LAMBDA b :
         With({l \in link : StartsAt(text, l, b)}, LAMBDA ls :
            IF ls = {} THEN None
            ELSE With(RunEnd(text, b + Len(CHOOSE l \in ls : TRUE), Whitespace),
                      LAMBDA d :
                 With({e \in (d + 1)..Len(text) : text[e] \in Terminal},
                      LAMBDA ends :
                    IF ends = {} THEN None
                    ELSE SubSeq(text, d, Max(ends))))))

\* group 1 of the match of  term \s* link \s* ([^。！？]+[。！？])  that starts
\* at position s, or None.  The second \s* gives one character back when a
\* terminal follows the whitespace directly.
DefMatchAt(text, term, link, s) ==
    IF ~StartsAt(text, term, s) THEN None
    ELSE With(RunEnd(text, s + Len(term), Whitespace), LAMBDA b :
         With({l \in link : StartsAt(text, l, b)}, LAMBDA ls :
            IF ls = {} THEN None
            ELSE With(b + Len(CHOOSE l \in ls : TRUE), LAMBDA c :
                 With(RunEnd(text, c, Whitespace), LAMBDA d :
                 With(IF d > Len(text) THEN 0
                      ELSE IF text[d] \notin Terminal THEN d
                      ELSE IF d > c THEN d - 1
                      ELSE 0, LAMBDA start :
                    IF start = 0 THEN None
                    ELSE With(RunEndNot(text, start, Terminal), LAMBDA e :
                            IF e > Len(text) THEN None
                            ELSE SubSeq(text, start, e)))))))

\* re.search(pattern, text).group(1) for the anchored pattern with this
\* link: the leftmost match, or None
DefSearch(text, term, link) ==
    With({s \in 1..Len(text) : DefMatchAt(text, term, link, s) # None},
         LAMBDA starts :
            IF starts = {} THEN None
            ELSE DefMatchAt(text, term, link, Min(starts)))

\* the definition that pattern n yields: its capture stripped and cleaned
\* (None when the pattern does not match)
DefCandidate(text, term, n) ==
    With(DefSearch(text, term, definition_patterns[n]), LAMBDA m :
        IF m = None THEN None ELSE clean_text(Strip(m)))

\* the minimum length of a definition (src/src/utils.py:171)
MinCaptureLen == 10

\* the same function giving up at the first pattern that matches: None when
\* the capture of that pattern is too short
extract_term_definition_first_match(text, term) ==
    IF text = <<>> \/ term = <<>> THEN None
    ELSE With([n \in 1..Len(definition_patterns) |->
                  DefCandidate(text, term, n)], LAMBDA definition :
         With({n \in 1..Len(definition_patterns) : definition[n] # None},
              LAMBDA matched :
            IF matched = {} THEN None
            ELSE IF Len(definition[Min(matched)]) >= MinCaptureLen
                 THEN definition[Min(matched)]
                 ELSE None))

\* extract_term_definition(text, term): the first pattern, in list order,
\* whose cleaned capture has at least 10 characters
extract_term_definition(text, term) ==
    IF text = <<>> \/ term = <<>> THEN None
    ELSE With([n \in 1..Len(definition_patterns) |->
                  DefCandidate(text, term, n)], LAMBDA definition :
         With({n \in 1..Len(definition_patterns) :
                  /\ definition[n] # None
                  /\ Len(definition[n]) >= MinCaptureLen}, LAMBDA ok :
            IF ok = {} THEN None ELSE definition[Min(ok)]))

-----------------------------------------------------------------------------
(* src/scripts/extract_terms.py: the definition confidence *)

\* term_extraction.similarity_threshold, in tenths (0.8)
similarity_threshold == 8

\* term_extraction.min_definition_length and max_definition_length
min_definition_length == 10
max_definition_length == 500

\* definition_keywords: 是指, 定义为, 为, 即, 指的是, 表示
definition_keywords ==
    {<<"shi", "zhi">>, <<"ding", "yi", "wei">>, <<"wei">>, <<"ji">>,
     <<"zhi", "de", "shi">>, <<"biao", "shi4">>}

\* score += w when cond holds
AddIf(score, cond, w) == IF cond THEN FAdd(score, Dbl(w)) ELSE score

\* the same computation without the bonus for a definition that holds
\* the term
calculate_definition_confidence_without_term(definition, term) ==
    LET c1 == AddIf(Dbl(0),
                    /\ min_definition_length <= Len(definition)
                    /\ Len(definition) <= max_definition_length, 3)
        c3 == AddIf(c1, definition # <<>>
                        /\ definition[Len(definition)] \in Terminal, 2)
        c4 == AddIf(c3, ContainsAny(definition, definition_keywords), 3)
    IN  FMin(c4, Dbl(10))

\* TermExtractor._calculate_definition_confidence(definition, term)
calculate_definition_confidence(definition, term) ==
    LET c1 == AddIf(Dbl(0),
                    /\ min_definition_length <= Len(definition)
                    /\ Len(definition) <= max_definition_length, 3)
        c2 == AddIf(c1, Contains(definition, term), 2)
        c3 == AddIf(c2, definition # <<>>
                        /\ definition[Len(definition)] \in Terminal, 2)
        c4 == AddIf(c3, ContainsAny(definition, definition_keywords), 3)
    IN  FMin(c4, Dbl(10))

-----------------------------------------------------------------------------
(* src/src/rules.py: AssociationRules *)

\* the relationship labels: 主从关系, 因果关系, 未知关系
Hierarchical == "ZhuCongGuanXi"
Causal == "YinGuoGuanXi"
Unknown == "WeiZhiGuanXi"

\* hierarchical_keywords['包含'], ['分类'], ['从属'] (the groups '组成' and
\* '子类' of the table are read by no code)
hierarchical_keywords ==
    [contain |-> {<<"bao1", "kuo">>, <<"bao1", "han">>, <<"han2", "gai">>,
                  <<"you", ".", ".", ".", "zu", "cheng">>},
     classify |-> {<<"fen", "wei">>, <<"fen", "lei">>, <<"lei", "bie">>,
                   <<"lei", "xing">>, <<"ceng", "ci">>, <<"ji2", "bie">>},
     belong |-> {<<"shu", "yu">>, <<"li", "shu", "yu">>, <<"gui", "ru">>,
                 <<"na", "ru">>}]

\* causal_keywords['导致'], ['因为'], ['影响'] (the groups '所以' and '关联' of
\* the table are read by no code)
causal_keywords ==
    [cause |-> {<<"dao", "zhi4">>, <<"yin3", "qi">>, <<"zao", "cheng">>,
                <<"chan", "sheng">>, <<"yin3", "fa">>},
     because |-> {<<"yin", "wei">>, <<"you", "yu">>, <<"jian", "yu">>,
                  <<"ji1", "yu">>},
     influence |-> {<<"ying", "xiang">>, <<"zuo", "yong">>,
                    <<"xiao", "ying4">>, <<"xiao", "guo">>}]

\* the keyword alternatives of each association pattern, in list order:
\* 导致|引起|造成, 包括|包含, 属于|隶属于, 分为|分类为, 与|和 (the last one is
\* followed by \s*(?:的)?关系)
association_patterns ==
    << {<<"dao", "zhi4">>, <<"yin3", "qi">>, <<"zao", "cheng">>},
       {<<"bao1", "kuo">>, <<"bao1", "han">>},
       {<<"shu", "yu">>, <<"li", "shu", "yu">>},
       {<<"fen", "wei">>, <<"fen", "lei", "wei">>},
       {<<"yu3">>, <<"he">>} >>

\* the end (exclusive) of \s*(?:的)?关系 matched from position p, or 0
RelationTrailerEnd(text, p) ==
    LET w == RunEnd(text, p, Whitespace)
    IN  IF StartsAt(text, <<"de", "guan", "xi">>, w) THEN w + 3
        ELSE IF StartsAt(text, <<"guan", "xi">>, w) THEN w + 2
        ELSE 0

\* what follows term1 in association pattern n, matched from position p:
\* <<term2, end of the match>>, or None
AssocTail(text, n, p) ==
    With(RunEnd(text, p, Whitespace), LAMBDA q :
    With({k \in association_patterns[n] : StartsAt(text, k, q)}, LAMBDA ks :
        IF ks = {} THEN None
        ELSE With(RunEnd(text, q + Len(CHOOSE k \in ks : TRUE), Whitespace),
                  LAMBDA q3 :
             With(RunEndNot(text, q3, TermStop), LAMBDA e2 :
                IF e2 = q3 THEN None
                ELSE IF n # 5 THEN <<SubSeq(text, q3, e2 - 1), e2>>
                \* pattern 5: term2 gives characters back until 关系 follows
                ELSE With({l \in 1..(e2 - q3) :
                             RelationTrailerEnd(text, q3 + l) # 0}, LAMBDA ls :
                        IF ls = {} THEN None
                        ELSE <<SubSeq(text, q3, q3 + Max(ls) - 1),
                               RelationTrailerEnd(text, q3 + Max(ls))>>)))))

\* the match of association pattern n that starts at position s:
\* <<term1, term2, end of the match>>, or None.  term1 is greedy: it is the
\* longest token after which the rest of the pattern matches.
AssocMatchAt(text, n, s) ==
    With({l \in 1..(RunEndNot(text, s, TermStop) - s) :
            AssocTail(text, n, s + l) # None}, LAMBDA ls :
        IF ls = {} THEN None
        ELSE <<SubSeq(text, s, s + Max(ls) - 1)>>
             \o AssocTail(text, n, s + Max(ls)))

\* re.finditer(association_patterns[n], text) from position pos on: the
\* sequence of <<term1, term2>> of the successive non-overlapping matches.
\* Every match holds one of the pattern's keywords after term1, so a text
\* without any of them after pos has no match.
RECURSIVE AssocFindIter(_, _, _)
AssocFindIter(text, n, pos) ==
    IF \A q \in (pos + 1)..Len(text) :
          \A k \in association_patterns[n] : ~StartsAt(text, k, q)
    THEN <<>>
    ELSE With({s \in pos..Len(text) : AssocMatchAt(text, n, s) # None},
              LAMBDA starts :
            IF starts = {} THEN <<>>
            ELSE With(AssocMatchAt(text, n, Min(starts)), LAMBDA m :
                    <<<<m[1], m[2]>>>> \o AssocFindIter(text, n, m[3])))

\* a count that takes a match only when term1 stands before the keyword and
\* term2 after it
PatternHitsInOrder(term1, term2, context) ==
    With([n \in 1..Len(association_patterns) |->
            AssocFindIter(context, n, 1)], LAMBDA matches :
        Cardinality({h \in UNION {{<<n, k>> : k \in 1..Len(matches[n])} :
                                    n \in 1..Len(association_patterns)} :
            With(matches[h[1]][h[2]], LAMBDA m :
                Contains(m[1], term1) /\ Contains(m[2], term2))}))

\* the number of matches, over all association patterns, whose groups hold
\* both terms in either order
PatternHits(term1, term2, context) ==
    With([n \in 1..Len(association_patterns) |->
            AssocFindIter(context, n, 1)], LAMBDA matches :
        Cardinality({h \in UNION {{<<n, k>> : k \in 1..Len(matches[n])} :
                                    n \in 1..Len(association_patterns)} :
            With(matches[h[1]][h[2]], LAMBDA m :
                \/ Contains(m[1], term1) /\ Contains(m[2], term2)
                \/ Contains(m[1], term2) /\ Contains(m[2], term1))}))

\* score after adding w once per pattern hit
RECURSIVE AddTimes(_, _, _)
AddTimes(score, w, n) ==
    IF n = 0 THEN score ELSE AddTimes(FAdd(score, Dbl(w)), w, n - 1)

\* AssociationRules._check_hierarchical_relationship: <<score, description>>
check_hierarchical_relationship(term1, term2, context) ==
    LET k1 == ContainsAny(context, hierarchical_keywords.contain)
        k2 == ContainsAny(context, hierarchical_keywords.classify)
        k3 == ContainsAny(context, hierarchical_keywords.belong)
        s3 == AddIf(AddIf(AddIf(Dbl(0), k1, 3), k2, 3), k3, 2)
        description ==
            IF k3 THEN term2 \o <<"shu", "yu">> \o term1
            ELSE IF k2 THEN term1 \o <<"fen", "wei">> \o term2
            ELSE IF k1 THEN term1 \o <<"bao1", "han">> \o term2
            ELSE <<>>
    IN  <<FMin(AddTimes(s3, 2, PatternHits(term1, term2, context)), Dbl(10)),
          description>>

\* AssociationRules._check_causal_relationship: <<score, description>>
check_causal_relationship(term1, term2, context) ==
    LET k1 == ContainsAny(context, causal_keywords.cause)
        k2 == ContainsAny(context, causal_keywords.because)
        k3 == ContainsAny(context, causal_keywords.influence)
        s3 == AddIf(AddIf(AddIf(Dbl(0), k1, 4), k2, 3), k3, 2)
        description ==
            IF k3 THEN term1 \o <<"ying", "xiang">> \o term2
            ELSE IF k2 THEN <<"yin", "wei">> \o term1 \o <<"suo", "yi3">> \o term2
            ELSE IF k1 THEN term1 \o <<"dao", "zhi4">> \o term2
            ELSE <<>>
    IN  <<FMin(AddTimes(s3, 1, PatternHits(term1, term2, context)), Dbl(10)),
          description>>

\* a choice of the relationship type that lets a score of exactly 0.5 win
analyze_relationship_from_half(term1, term2, context) ==
    IF term1 = <<>> \/ term2 = <<>> \/ context = <<>>
    THEN <<Unknown, Dbl(0), <<>>>>
    ELSE With(check_hierarchical_relationship(term1, term2, context),
              LAMBDA h :
         With(check_causal_relationship(term1, term2, context), LAMBDA c :
            IF FGt(h[1], c[1]) /\ FGe(h[1], Dbl(5))
            THEN <<Hierarchical, h[1], h[2]>>
            ELSE IF FGt(c[1], h[1]) /\ FGe(c[1], Dbl(5))
            THEN <<Causal, c[1], c[2]>>
            ELSE <<Unknown, FMax(h[1], c[1]), <<>>>>))

\* AssociationRules.analyze_relationship: <<type, confidence, description>>
analyze_relationship(term1, term2, context) ==
    IF term1 = <<>> \/ term2 = <<>> \/ context = <<>>
    THEN <<Unknown, Dbl(0), <<>>>>
    ELSE With(check_hierarchical_relationship(term1, term2, context),
              LAMBDA h :
         With(check_causal_relationship(term1, term2, context), LAMBDA c :
            IF FGt(h[1], c[1]) /\ FGt(h[1], Dbl(5))
            THEN <<Hierarchical, h[1], h[2]>>
            ELSE IF FGt(c[1], h[1]) /\ FGt(c[1], Dbl(5))
            THEN <<Causal, c[1], c[2]>>
            ELSE <<Unknown, FMax(h[1], c[1]), <<>>>>))

\* sentences.index(sentence): the first index holding an equal sentence
\* (0-based in the code, 1-based here)
IndexOf(sentences, sentence) ==
    Min({i \in 1..Len(sentences) : sentences[i] = sentence})

\* AssociationRules.extract_association_context(text, term1, term2)
extract_association_context(text, term1, term2) ==
    With(Split(text, Terminal), LAMBDA sentences :
    With(SelectSeq([k \in 1..Len(sentences) |-> k],
                   LAMBDA k : /\ Contains(sentences[k], term1)
                              /\ Contains(sentences[k], term2)), LAMBDA both :
        [j \in 1..Len(both) |->
            With(IndexOf(sentences, sentences[both[j]]), LAMBDA i :
                Strip(Join(SubSeq(sentences, Max({1, i - 2}),
                                  Min({Len(sentences), i + 2})))))]))

-----------------------------------------------------------------------------
(* Python dict (insertion-ordered) as a sequence of <<key, value>> entries, *)
(* and the formatting of integers.                                          *)

\* d[key] = value: an existing key keeps its place
DictSet(d, key, value) ==
    IF \E k \in 1..Len(d) : d[k][1] = key
    THEN [k \in 1..Len(d) |-> IF d[k][1] = key THEN <<key, value>> ELSE d[k]]
    ELSE Append(d, <<key, value>>)

\* str(n) for n >= 0
RECURSIVE Str(_)
Str(n) ==
    LET digit == <<"0", "1", "2", "3", "4", "5", "6", "7", "8", "9">>[(n % 10) + 1]
    IN  IF n < 10 THEN <<digit>> ELSE Str(n \div 10) \o <<digit>>

\* f"{n:02d}"
Format02d(n) == IF n < 10 THEN <<"0">> \o Str(n) ELSE Str(n)

-----------------------------------------------------------------------------
(* src/scripts/extract_terms.py: TermExtractor                              *)
(* A task-1 record has the fields 术语名称 (term_name), 术语定义            *)
(* (term_definition), 文档出处 (document_source), 文档页数 (document_pages). *)

\* Python's None, for a result that is a dict or None
NoRecord == [none |-> TRUE]

\* a loop body that also replaces the best candidate by one of equal
\* confidence, so that the last-seen of them is kept
scan_page_keep_last(best, term, doc, page) ==
    IF ~Contains(page.text, term) THEN best
    ELSE With(extract_term_definition(page.text, term), LAMBDA definition :
            IF definition = None \/ definition = <<>> THEN best
            ELSE With(calculate_definition_confidence(definition, term),
                      LAMBDA confidence :
                    IF FGe(confidence, best.confidence)
                    THEN [result |->
                            [term_name |-> term,
                             term_definition |-> definition,
                             document_source |->
                                standardize_document_name(doc.file_name),
                             document_pages |->
                                format_page_number(
                                   <<"di">> \o Str(page.page_number)
                                   \o <<"ye">>)],
                          confidence |-> confidence]
                    ELSE best))

\* the loop body of _extract_single_term for one page: best is
\* [result, confidence], the pair (best_result, best_confidence)
scan_page(best, term, doc, page) ==
    IF ~Contains(page.text, term) THEN best
    ELSE With(extract_term_definition(page.text, term), LAMBDA definition :
            IF definition = None \/ definition = <<>> THEN best
            ELSE With(calculate_definition_confidence(definition, term),
                      LAMBDA confidence :
                    IF FGt(confidence, best.confidence)
                    THEN [result |->
                            [term_name |-> term,
                             term_definition |-> definition,
                             document_source |->
                                standardize_document_name(doc.file_name),
                             document_pages |->
                                format_page_number(
                                   <<"di">> \o Str(page.page_number)
                                   \o <<"ye">>)],
                          confidence |-> confidence]
                    ELSE best))

\* the pages of the corpus in scan order, each with its document
AllPages(pdf_documents) ==
    LET RECURSIVE flat(_)
        flat(k) ==
            IF k > Len(pdf_documents) THEN <<>>
            ELSE [j \in 1..Len(pdf_documents[k].pages) |->
                     [doc |-> pdf_documents[k],
                      page |-> pdf_documents[k].pages[j]]] \o flat(k + 1)
    IN  flat(1)

\* best_result and best_confidence after the first n pages of the scan
RECURSIVE ScanPrefix(_, _, _)
ScanPrefix(term, pages, n) ==
    IF n = 0 THEN [result |-> NoRecord, confidence |-> Dbl(0)]
    ELSE scan_page(ScanPrefix(term, pages, n - 1), term,
                   pages[n].doc, pages[n].page)

\* _extract_single_term without the threshold: the best candidate is returned
\* whatever its confidence
extract_single_term_ungated(term, pdf_documents) ==
    With(AllPages(pdf_documents), LAMBDA pages :
        ScanPrefix(term, pages, Len(pages)).result)

\* TermExtractor._extract_single_term(term, pdf_documents): a record or None
extract_single_term(term, pdf_documents) ==
    With(AllPages(pdf_documents), LAMBDA pages :
    With(ScanPrefix(term, pages, Len(pages)), LAMBDA best :
        IF FGe(best.confidence, Dbl(similarity_threshold))
        THEN best.result ELSE NoRecord))

\* term_key = f"W{i}": a key without zero padding
TermKeyUnpadded(i) == <<"W">> \o Str(i)

\* term_key = f"W{i:02d}"
TermKey(i) == <<"W">> \o Format02d(i)

\* the record extract_terms stores for the i-th term
TermRecord(term, pdf_documents) ==
    With(extract_single_term(term, pdf_documents), LAMBDA term_result :
        IF term_result # NoRecord THEN term_result
        ELSE [term_name |-> term, term_definition |-> <<>>,
              document_source |-> <<>>, document_pages |-> <<>>])

-----------------------------------------------------------------------------
(* src/scripts/associate_terms.py: TermAssociator                           *)
(* A task-2 record has the fields 术语关联 (term_association), 关联关系     *)
(* (relationship), 关联描述 (association_description, a list of             *)
(* {文档出处, 文档页数}), 置信度 (confidence), 上下文 (context).            *)

\* association_analysis.min_confidence, in tenths (0.7)
min_confidence == 7

\* the length context[:500] cuts the stored context to
MaxContextLen == 500

\* the loop body of _analyze_term_pair_association for one context window:
\* best is [association, confidence]
scan_context(best, term1, term2, doc, page, context) ==
    With(analyze_relationship(term1, term2, context), LAMBDA r :
        IF FGt(r[2], best.confidence) /\ FGe(r[2], Dbl(min_confidence))
        THEN [association |->
                [term_association |-> <<term1, term2>>,
                 relationship |-> r[1],
                 association_description |->
                    << [document_source |->
                           standardize_document_name(doc.file_name),
                        document_pages |->
                           format_page_number(<<"di">> \o Str(page.page_number)
                                              \o <<"ye">>)] >>,
                 confidence |-> r[2],
                 context |-> SubSeq(context, 1,
                                    Min({Len(context), MaxContextLen}))],
              confidence |-> r[2]]
        ELSE best)

\* the context windows of one page for a pair, each with its document and
\* page; a page that does not hold both terms has none
PageContexts(term1, term2, doc, page) ==
    With(IF Contains(page.text, term1) /\ Contains(page.text, term2)
         THEN extract_association_context(page.text, term1, term2)
         ELSE <<>>, LAMBDA contexts :
        [j \in 1..Len(contexts) |->
            [doc |-> doc, page |-> page, context |-> contexts[j]]])

\* the context windows of the corpus for a pair in scan order
RECURSIVE ContextsFrom(_, _, _, _)
ContextsFrom(term1, term2, pages, k) ==
    IF k > Len(pages) THEN <<>>
    ELSE PageContexts(term1, term2, pages[k].doc, pages[k].page)
         \o ContextsFrom(term1, term2, pages, k + 1)

\* the context windows the loops of _analyze_term_pair_association visit
AllContexts(term1, term2, pdf_documents) ==
    ContextsFrom(term1, term2, AllPages(pdf_documents), 1)

\* best_association and best_confidence after the first n context windows
RECURSIVE PairPrefix(_, _, _, _)
PairPrefix(term1, term2, contexts, n) ==
    IF n = 0 THEN [association |-> NoRecord, confidence |-> Dbl(0)]
    ELSE scan_context(PairPrefix(term1, term2, contexts, n - 1), term1, term2,
                      contexts[n].doc, contexts[n].page, contexts[n].context)

\* TermAssociator._analyze_term_pair_association: a record or None
analyze_term_pair_association(term1, term2, pdf_documents) ==
    With(AllContexts(term1, term2, pdf_documents), LAMBDA contexts :
        PairPrefix(term1, term2, contexts, Len(contexts)).association)

\* list(itertools.combinations(terms, 2)) as pairs of positions
Combinations2(n) ==
    LET RECURSIVE from(_, _)
        from(a, b) ==
            IF a >= n THEN <<>>
            ELSE IF b > n THEN from(a + 1, a + 2)
            ELSE <<<<a, b>>>> \o from(a, b + 1)
    IN  from(1, 2)

\* result_key = f"R{association_count:02d}"
ResultKey(count) == <<"R">> \o Format02d(count)

\* a test that records every result that is not None, whatever its label
IsAssociationAnyLabel(association_result) == association_result # NoRecord

\* whether analyze_associations records the result of a pair
IsAssociation(association_result) ==
    /\ association_result # NoRecord
    /\ association_result.relationship # Unknown

-----------------------------------------------------------------------------
(* src/scripts/validate_output.py: OutputValidator *)

\* not s or not s.strip()
IsBlank(s) == s = <<>> \/ Strip(s) = <<>>

\* _validate_document_source_format: no .pdf suffix and none of <>:"/\|?*
validate_document_source_format(document_source) ==
    /\ ~(Len(document_source) >= 4
         /\ SubSeq(document_source, Len(document_source) - 3,
                   Len(document_source)) = <<".", "p", "d", "f">>)
    /\ \A k \in 1..Len(document_source) :
          document_source[k] \notin {"<", ">", ":", "\"", "/", "\\", "|", "?", "*"}

\* _validate_page_format: ^第\d+页$ or ^第\d+-\d+页$ with re.match ($ also
\* matches before a final newline)
validate_page_format(page_info) ==
    LET body == IF page_info # <<>> /\ page_info[Len(page_info)] = "\n"
                THEN SubSeq(page_info, 1, Len(page_info) - 1) ELSE page_info
        n == Len(body)
        e1 == RunEnd(body, 2, Digit)
    IN  /\ n >= 3
        /\ body[1] = "di"
        /\ body[n] = "ye"
        /\ e1 > 2
        /\ \/ e1 = n
           \/ /\ body[e1] = "-"
              /\ e1 + 1 < n
              /\ RunEnd(body, e1 + 1, Digit) = n

\* _validate_task1_fields(key, term_info): the number of errors
validate_task1_fields(term_info) ==
    (IF IsBlank(term_info.term_name) THEN 1 ELSE 0)
    + (IF IsBlank(term_info.term_definition) THEN 1
       ELSE IF Len(term_info.term_definition) < 10 THEN 1 ELSE 0)
    + (IF IsBlank(term_info.document_source) THEN 1
       ELSE IF ~validate_document_source_format(term_info.document_source)
       THEN 1 ELSE 0)
    + (IF IsBlank(term_info.document_pages) THEN 1
       ELSE IF ~validate_page_format(term_info.document_pages) THEN 1 ELSE 0)

\* validate_task1_output(task1_results): the entries without errors
validate_task1_output(task1_results) ==
    SelectSeq(task1_results,
              LAMBDA e : e[1][1] = "W" /\ validate_task1_fields(e[2]) = 0)

\* _validate_task2_fields(key, association_info): the number of errors
validate_task2_fields(association_info) ==
    LET ta == association_info.term_association
        ds == association_info.association_description
    IN  (IF Len(ta) # 2 THEN 1
         ELSE Cardinality({k \in 1..2 : ta[k] = <<>>}))
        + (IF association_info.relationship \notin {Hierarchical, Causal}
           THEN 1 ELSE 0)
        + Cardinality({k \in 1..Len(ds) : ds[k].document_source = <<>>})
        + Cardinality({k \in 1..Len(ds) : ds[k].document_pages = <<>>})

\* validate_task2_output(task2_results): the entries without errors
validate_task2_output(task2_results) ==
    SelectSeq(task2_results,
              LAMBDA e : e[1][1] = "R" /\ validate_task2_fields(e[2]) = 0)

-----------------------------------------------------------------------------
(* The inputs of a run: the requested terms (task.json) and the parsed      *)
(* corpus (PDFParser.parse_all_pdfs: documents {file_name, pages:           *)
(* [{page_number, text}]}).                                                 *)

\* the longest requested term list
MaxTerms == 3

\* 风暴潮, 海岸侵蚀, 海浪
StormSurge == <<"feng", "bao", "chao">>
CoastErosion == <<"hai", "an", "qin", "shi2">>
Wave == <<"hai", "lang">>

TermPool == {StormSurge, CoastErosion, Wave}

\* every list of at most MaxTerms requested terms, duplicates allowed
TermLists == UNION {[1..n -> TermPool] : n \in 0..MaxTerms}

\* 风暴潮是指风暴潮为海岸异常变化的灾害。
PageStormSurgeDefined ==
    <<"feng", "bao", "chao", "shi", "zhi", "feng", "bao", "chao", "wei",
      "hai", "an", "yi4", "chang", "bian", "hua", "de", "zai", "hai4",
      "F.">>

\* 海浪是指由海洋自然环境异常变化导致的灾害。
PageWaveWeakDefinition ==
    <<"hai", "lang", "shi", "zhi", "you", "hai", "yang", "zi", "ran",
      "huan", "jing", "yi4", "chang", "bian", "hua", "dao", "zhi4", "de",
      "zai", "hai4", "F.">>

\* 海岸侵蚀：海浪即海岸变化导致的灾害。
PageErosionColon ==
    <<"hai", "an", "qin", "shi2", "F:", "hai", "lang", "ji", "hai", "an",
      "bian", "hua", "dao", "zhi4", "de", "zai", "hai4", "F.">>

\* 风暴潮会导致海岸侵蚀。
PageWillCause ==
    <<"feng", "bao", "chao", "hui", "dao", "zhi4", "hai", "an", "qin",
      "shi2", "F.">>

\* 因为风暴潮导致海岸侵蚀。
PageBecauseCause ==
    <<"yin", "wei", "feng", "bao", "chao", "dao", "zhi4", "hai", "an",
      "qin", "shi2", "F.">>

\* 海浪属于风暴潮的分类，包括海浪。
PageBelongs ==
    <<"hai", "lang", "shu", "yu", "feng", "bao", "chao", "de", "fen",
      "lei", "F,", "bao1", "kuo", "hai", "lang", "F.">>

\* 因为风暴潮导致海岸侵蚀，风暴潮包括海岸侵蚀，影响分类属于
PageTie ==
    <<"yin", "wei", "feng", "bao", "chao", "dao", "zhi4", "hai", "an",
      "qin", "shi2", "F,", "feng", "bao", "chao", "bao1", "kuo", "hai",
      "an", "qin", "shi2", "F,", "ying", "xiang", "fen", "lei", "shu",
      "yu">>

\* the pages of a document, numbered from 1
Pages(texts) == [k \in 1..Len(texts) |-> [page_number |-> k, text |-> texts[k]]]

\* the documents of the corpus directory
DocGB1 ==
    [file_name |-> <<"G", "B", "_", "1", ".", "p", "d", "f">>,
     pages |-> Pages(<<PageStormSurgeDefined, PageWaveWeakDefinition>>)]
DocGB2 ==
    [file_name |-> <<"G", "B", "_", "2", ".", "p", "d", "f">>,
     pages |-> Pages(<<PageErosionColon, PageWillCause>>)]
DocHY3 ==
    [file_name |-> <<"H", "Y", "-", "3", ".", "p", "d", "f">>,
     pages |-> Pages(<<PageBecauseCause, PageBelongs>>)]
DocHY4 ==
    [file_name |-> <<"H", "Y", "_", "4", ".", "p", "d", "f">>,
     pages |-> Pages(<<PageTie>>)]

DocPool == {DocGB1, DocGB2, DocHY3, DocHY4}

\* the corpora of the runs: no document, one document, and every document
\* in either order of the directory listing
Corpora ==
    {<<>>} \cup {<<d>> : d \in DocPool}
    \cup {<<DocGB1, DocGB2, DocHY3, DocHY4>>,
          <<DocHY4, DocHY3, DocGB2, DocGB1>>}

-----------------------------------------------------------------------------
(* src/app.py: OceanTerminologySystem.run_pipeline, run twice by its caller *)

VARIABLES
    target_terms,        \* terms_list, the requested terms
    pdf_documents,       \* the parsed corpus
    pc,                  \* the position in run_pipeline
    i,                   \* extract_terms: the terms handled so far
    results,             \* extract_terms: results
    task1_results,       \* run_task1's return value (validated)
    pair_index,          \* analyze_associations: the term pairs handled so far
    association_count,   \* analyze_associations: association_count
    association_results, \* analyze_associations: results
    task2_results,       \* run_task2's return value (validated)
    run,                 \* which run of the pipeline this is
    first_run,           \* what the first run returned, once it has ended
    call,                \* a direct call of a function: its arguments
    ret                  \* a direct call of a function: the values returned

vars == <<target_terms, pdf_documents, pc, i, results, task1_results,
          pair_index, association_count, association_results, task2_results,
          run, first_run, call, ret>>

\* the state at the start of run_pipeline
Init ==
    /\ target_terms \in TermLists
    /\ pdf_documents \in Corpora
    /\ pc = "extract_terms"
    /\ i = 0
    /\ results = <<>>
    /\ task1_results = <<>>
    /\ pair_index = 0
    /\ association_count = 0
    /\ association_results = <<>>
    /\ task2_results = <<>>
    /\ run = 1
    /\ first_run = NoRecord
    /\ call = NoRecord
    /\ ret = <<>>

\* term_pairs = list(itertools.combinations(terms, 2))
term_pairs == Combinations2(Len(target_terms))

\* one iteration of the loop of extract_terms (lines 46-61)
ExtractTermsStep ==
    /\ pc = "extract_terms"
    /\ i < Len(target_terms)
    /\ i' = i + 1
    /\ results' = DictSet(results, TermKey(i + 1),
                          TermRecord(target_terms[i + 1], pdf_documents))
    /\ UNCHANGED <<target_terms, pdf_documents, pc, task1_results, pair_index,
                   association_count, association_results, task2_results,
                   run, first_run, call, ret>>

\* extract_terms returns and run_task1 validates its result (app.py:60-67)
ValidateTask1 ==
    /\ pc = "extract_terms"
    /\ i = Len(target_terms)
    /\ task1_results' = validate_task1_output(results)
    /\ pc' = "run_task2"
    /\ UNCHANGED <<target_terms, pdf_documents, i, results, pair_index,
                   association_count, association_results, task2_results,
                   run, first_run, call, ret>>

\* a start of analyze_associations that keeps the mapping and the counter of
\* the call before
AnalyzeAssociationsStartKeepCount ==
    /\ pc = "run_task2"
    /\ pc' = "analyze_associations"
    /\ pair_index' = 0
    /\ UNCHANGED <<target_terms, pdf_documents, i, results, task1_results,
                   association_count, association_results, task2_results,
                   run, first_run, call, ret>>

\* run_task2 calls analyze_associations, which starts with an empty mapping
\* and association_count = 0 (associate_terms.py:41-49)
AnalyzeAssociationsStart ==
    /\ pc = "run_task2"
    /\ pc' = "analyze_associations"
    /\ pair_index' = 0
    /\ association_count' = 0
    /\ association_results' = <<>>
    /\ UNCHANGED <<target_terms, pdf_documents, i, results, task1_results,
                   task2_results, run, first_run, call, ret>>

\* an iteration that numbers a record by the position of its pair in
\* term_pairs instead of by association_count
AnalyzeAssociationsStepKeyedByPair ==
    /\ pc = "analyze_associations"
    /\ pair_index < Len(term_pairs)
    /\ With(analyze_term_pair_association(
                target_terms[term_pairs[pair_index + 1][1]],
                target_terms[term_pairs[pair_index + 1][2]],
                pdf_documents), LAMBDA association_result :
          IF IsAssociation(association_result)
          THEN /\ association_count' = association_count + 1
               /\ association_results' =
                     DictSet(association_results, ResultKey(pair_index + 1),
                             association_result)
          ELSE UNCHANGED <<association_count, association_results>>)
    /\ pair_index' = pair_index + 1
    /\ UNCHANGED <<target_terms, pdf_documents, pc, i, results, task1_results,
                   task2_results, run, first_run, call, ret>>

\* one iteration of the loop of analyze_associations (lines 51-59)
AnalyzeAssociationsStep ==
    /\ pc = "analyze_associations"
    /\ pair_index < Len(term_pairs)
    /\ With(analyze_term_pair_association(
                target_terms[term_pairs[pair_index + 1][1]],
                target_terms[term_pairs[pair_index + 1][2]],
                pdf_documents), LAMBDA association_result :
          IF IsAssociation(association_result)
          THEN /\ association_count' = association_count + 1
               /\ association_results' =
                     DictSet(association_results,
                             ResultKey(association_count + 1),
                             association_result)
          ELSE UNCHANGED <<association_count, association_results>>)
    /\ pair_index' = pair_index + 1
    /\ UNCHANGED <<target_terms, pdf_documents, pc, i, results, task1_results,
                   task2_results, run, first_run, call, ret>>

\* analyze_associations returns and run_task2 validates its result
\* (app.py:91-98)
ValidateTask2 ==
    /\ pc = "analyze_associations"
    /\ pair_index = Len(term_pairs)
    /\ task2_results' = validate_task2_output(association_results)
    /\ pc' = "done"
    /\ UNCHANGED <<target_terms, pdf_documents, i, results, task1_results,
                   pair_index, association_count, association_results,
                   run, first_run, call, ret>>

\* the pipeline is run again on the same task file and corpus
Rerun ==
    /\ pc = "done"
    /\ run = 1
    /\ first_run' = [extracted |-> results, task1 |-> task1_results,
                     associations |-> association_results,
                     task2 |-> task2_results]
    /\ run' = 2
    /\ pc' = "extract_terms"
    /\ i' = 0
    /\ results' = <<>>
    /\ UNCHANGED <<target_terms, pdf_documents, task1_results, pair_index,
                   association_count, association_results, task2_results,
                   call, ret>>

Next ==
    \/ ExtractTermsStep
    \/ ValidateTask1
    \/ AnalyzeAssociationsStart
    \/ AnalyzeAssociationsStep
    \/ ValidateTask2
    \/ Rerun

Spec == Init /\ [][Next]_vars

-----------------------------------------------------------------------------
(* Direct calls of the functions, as src/test_system.py makes them: call    *)
(* holds the arguments and ret the values returned so far.  The pipeline's  *)
(* variables stay as they are before a run.                                 *)

\* the pipeline has not been started
Idle ==
    /\ target_terms = <<>>
    /\ pdf_documents = <<>>
    /\ pc = "call"
    /\ i = 0
    /\ results = <<>>
    /\ task1_results = <<>>
    /\ pair_index = 0
    /\ association_count = 0
    /\ association_results = <<>>
    /\ task2_results = <<>>
    /\ run = 1
    /\ first_run = NoRecord

pipeline_vars ==
    <<target_terms, pdf_documents, pc, i, results, task1_results, pair_index,
      association_count, association_results, task2_results, run, first_run>>

\* every string of at most n characters of the alphabet
Strings(alphabet, n) == UNION {[1..k -> alphabet] : k \in 0..n}

-----------------------------------------------------------------------------
(* format_page_number(page_info), then format_page_number of its result *)

\* the longest page_info drawn from PageAlphabet
MaxPageLen == 3

\* 第, 页, two digits, the range separators, a letter and a space
PageAlphabet == {"di", "ye", "1", "2", "-", "~", "p", " "}

\* 第12页 (src/test_system.py:53), and inputs for the other two patterns
PageExamples ==
    {<<"di", "1", "2", "ye">>,
     <<"p", "a", "g", "e", " ", "0", "5">>,
     <<"P", ".", " ", "1", "2", "~", "2", "0">>,
     <<"di", "x", "ye", "\n">>}

PageInputs == Strings(PageAlphabet, MaxPageLen) \cup PageExamples

InitPage ==
    /\ Idle
    /\ call \in {[function |-> "format_page_number", page_info |-> x] :
                    x \in PageInputs}
    /\ ret = <<>>

\* page_info = format_page_number(...)
FormatPageNumber ==
    /\ pc = "call"
    /\ call.function = "format_page_number"
    /\ ret = <<>>
    /\ ret' = <<format_page_number(call.page_info)>>
    /\ UNCHANGED <<pipeline_vars, call>>

\* format_page_number(page_info): the label is formatted again
FormatPageNumberAgain ==
    /\ pc = "call"
    /\ call.function = "format_page_number"
    /\ Len(ret) = 1
    /\ ret' = Append(ret, format_page_number(ret[1]))
    /\ UNCHANGED <<pipeline_vars, call>>

NextPage == FormatPageNumber \/ FormatPageNumberAgain

SpecPage == InitPage /\ [][NextPage]_vars

-----------------------------------------------------------------------------
(* definition = extract_term_definition(page_text, term), then              *)
(* confidence = self._calculate_definition_confidence(definition, term)     *)
(* (src/scripts/extract_terms.py:86-90)                                     *)

\* 海洋灾害
OceanDisaster == <<"hai", "yang", "zai", "hai4">>

\* 海洋灾害是指由海洋自然环境异常或剧烈变化导致的灾害。
OceanDisasterSentence ==
    <<"hai", "yang", "zai", "hai4", "shi", "zhi", "you", "hai", "yang", "zi",
      "ran", "huan", "jing", "yi4", "chang", "huo", "ju", "lie", "bian",
      "hua", "dao", "zhi4", "de", "zai", "hai4", "F.">>

\* what stands between the term and the text that follows it: the links of
\* the five patterns, with and without whitespace, and 会, which is no link
DefLinks ==
    {<<"F:">>, <<":">>, <<"shi", "zhi">>, <<" ", "shi", "zhi", " ">>,
     <<"ding", "yi", "wei">>, <<"wei">>, <<"\n", "wei">>, <<"ji">>,
     <<"ji", " ">>, <<"hui">>}

\* the text after the link, up to its end: short, long, holding the term,
\* holding characters that clean_text removes or collapses, empty
DefBodies ==
    {<<"zai", "hai4">>,
     <<"you", "hai", "yang", "zi", "ran", "huan", "jing", "yi4", "chang",
       "bian", "hua", "dao", "zhi4", "de", "zai", "hai4">>,
     <<"hai", "yang", "zai", "hai4", "wei", "hai", "an", "yi4", "chang",
       "bian", "hua", "de", "zai", "hai4">>,
     <<"you", "-", "hai", ".", "yang", " ", " ", "zi", "ran", "'", "huan",
       "jing", "\n", "bian", "hua", "-", "de", "zai", "hai4", " ">>,
     <<"hai", "yang", ".", "-", "zi", "ran", "-", ".", "de", "zai", "hai4">>,
     <<>>}

\* how the sentence ends
DefEnds == {<<"F.">>, <<"F!">>, <<"F?">>, <<"F!", "F?">>, <<"F;">>, <<>>}

\* what follows the sentence
DefTails ==
    {<<>>, <<"hai", "lang", "ji", "hai", "an", "bian", "hua", "dao", "zhi4",
           "de", "zai", "hai4", "F.">>}

DefTexts ==
    {OceanDisasterSentence}
    \cup {OceanDisaster \o link \o body \o end \o tail :
             link \in DefLinks, body \in DefBodies, end \in DefEnds,
             tail \in DefTails}

InitDef ==
    /\ Idle
    /\ call \in {[function |-> "extract_term_definition", text |-> text,
                  term |-> OceanDisaster] : text \in DefTexts}
    /\ ret = <<>>

\* definition = extract_term_definition(page_text, term)
ExtractTermDefinition ==
    /\ pc = "call"
    /\ call.function = "extract_term_definition"
    /\ ret = <<>>
    /\ ret' = <<extract_term_definition(call.text, call.term)>>
    /\ UNCHANGED <<pipeline_vars, call>>

\* if definition: confidence = _calculate_definition_confidence(...)
CalculateDefinitionConfidence ==
    /\ pc = "call"
    /\ call.function = "extract_term_definition"
    /\ Len(ret) = 1
    /\ ret[1] # None
    /\ ret[1] # <<>>
    /\ ret' = Append(ret, calculate_definition_confidence(ret[1], call.term))
    /\ UNCHANGED <<pipeline_vars, call>>

NextDef == ExtractTermDefinition \/ CalculateDefinitionConfidence

SpecDef == InitDef /\ [][NextDef]_vars

-----------------------------------------------------------------------------
(* relationship, confidence, description =                                  *)
(*     association_rules.analyze_relationship(term1, term2, context)        *)

\* what stands between the two terms of a context: 会导致 (the wording of
\* src/test_system.py:80), 导致, 引起, 属于, 包括, 影响, 和
RelConnectives ==
    {<<"hui", "dao", "zhi4">>, <<"dao", "zhi4">>, <<"yin3", "qi">>,
     <<"shu", "yu">>, <<"bao1", "kuo">>, <<"ying", "xiang">>, <<"he">>}

\* what stands before the first term: nothing, 因为, 分类
RelPrefixes == {<<>>, <<"yin", "wei">>, <<"fen", "lei">>}

\* what stands after the second term: nothing, a full stop, 的关系
RelSuffixes == {<<>>, <<"F.">>, <<"de", "guan", "xi">>}

InitRel ==
    /\ Idle
    /\ call \in {[function |-> "analyze_relationship", term1 |-> term1,
                  term2 |-> term2,
                  context |-> prefix \o term1 \o connective \o term2
                              \o suffix] :
                    term1 \in TermPool, term2 \in TermPool,
                    connective \in RelConnectives, prefix \in RelPrefixes,
                    suffix \in RelSuffixes}
    /\ ret = <<>>

\* relationship, confidence, description = analyze_relationship(...)
AnalyzeRelationship ==
    /\ pc = "call"
    /\ call.function = "analyze_relationship"
    /\ ret = <<>>
    /\ ret' = <<analyze_relationship(call.term1, call.term2, call.context)>>
    /\ UNCHANGED <<pipeline_vars, call>>

NextRel == AnalyzeRelationship

SpecRel == InitRel /\ [][NextRel]_vars

-----------------------------------------------------------------------------
(* The properties checked of the pipeline (Spec). *)

\* the k-th key of a mapping written out: W01, W02, ... or R01, R02, ...
OrdinalKey(letter, k) ==
    <<letter, "0", <<"1", "2", "3", "4", "5", "6", "7", "8", "9">>[k]>>

\* extract_terms has returned its mapping
ExtractTermsReturned == pc \in {"run_task2", "analyze_associations", "done"}

\* C1: after i terms the mapping of extract_terms holds exactly i entries;
\* its k-th entry has the key W0k and the k-th requested term as 术语名称;
\* the mapping extract_terms returns has one entry per requested term
C1_OneKeyPerTermInRequestOrder ==
    /\ pc \in {"extract_terms", "run_task2", "analyze_associations", "done"}
          => Len(results) = i
    /\ \A k \in 1..Len(results) :
          /\ results[k][1] = OrdinalKey("W", k)
          /\ results[k][2].term_name = target_terms[k]
    /\ ExtractTermsReturned => Len(results) = Len(target_terms)

\* C1 witness: a list of three terms whose first and third are the same term
\* has been extracted
C1_DuplicateTermsExtracted ==
    /\ ExtractTermsReturned
    /\ Len(target_terms) = 3
    /\ target_terms[1] = target_terms[3]
    /\ Len(results) = 3

\* the confidences of the candidates of a term: one for every page of the
\* corpus that holds the term and yields a definition
CandidateConfidences(term) ==
    {calculate_definition_confidence(
         extract_term_definition(pdf_documents[d].pages[p].text, term), term) :
       <<d, p>> \in
         {x \in UNION {{<<d, p>> : p \in 1..Len(pdf_documents[d].pages)} :
                         d \in 1..Len(pdf_documents)} :
            LET text == pdf_documents[x[1]].pages[x[2]].text
            IN  /\ Contains(text, term)
                /\ extract_term_definition(text, term) \notin {None, <<>>}}}

\* C2: in the mapping extract_terms returns, a record with a non-empty
\* 术语定义 holds a definition whose confidence is at least
\* similarity_threshold, and a term none of whose candidates reaches the
\* threshold has a record with empty 术语定义, 文档出处 and 文档页数
C2_DefinitionsMeetThreshold ==
    (pc = "extract_terms" /\ i = Len(target_terms)) =>
        \A k \in 1..Len(results) :
            LET rec == results[k][2]
            IN  /\ rec.term_definition # <<>> =>
                      FGe(calculate_definition_confidence(rec.term_definition,
                                                          rec.term_name),
                          Dbl(similarity_threshold))
                /\ (\A c \in CandidateConfidences(rec.term_name) :
                        FLt(c, Dbl(similarity_threshold)))
                      => /\ rec.term_definition = <<>>
                         /\ rec.document_source = <<>>
                         /\ rec.document_pages = <<>>

\* C2 witness: extract_terms returns a record with a definition, an empty
\* record for a term whose only candidates score below the threshold, and
\* an empty record for a term without any candidate
C2_AcceptedAndRejectedTerms ==
    /\ pc = "extract_terms"
    /\ i = Len(target_terms)
    /\ \E k \in 1..Len(results) : results[k][2].term_definition # <<>>
    /\ \E k \in 1..Len(results) :
          /\ results[k][2].term_definition = <<>>
          /\ CandidateConfidences(results[k][2].term_name) # {}
    /\ \E k \in 1..Len(results) :
          /\ results[k][2].term_definition = <<>>
          /\ CandidateConfidences(results[k][2].term_name) = {}

\* some context window of the corpus classifies the pair as 主从关系 or
\* 因果关系 with a confidence of at least min_confidence
ReachesGate(term1, term2) ==
    \E d \in 1..Len(pdf_documents) :
       \E p \in 1..Len(pdf_documents[d].pages) :
          LET text == pdf_documents[d].pages[p].text
          IN  /\ Contains(text, term1)
              /\ Contains(text, term2)
              /\ LET contexts == extract_association_context(text, term1, term2)
                 IN  \E j \in 1..Len(contexts) :
                        LET r == analyze_relationship(term1, term2, contexts[j])
                        IN  /\ r[1] \in {Hierarchical, Causal}
                            /\ FGe(r[2], Dbl(min_confidence))

\* C5: every record of the mapping of analyze_associations has 关联关系
\* 主从关系 or 因果关系, a 置信度 of at least min_confidence and a non-empty
\* 关联描述; the pair just analysed has no record when no context window of
\* the corpus brings it to such a result
C5_RecordsPassTheGate ==
    /\ \A k \in 1..Len(association_results) :
          LET rec == association_results[k][2]
          IN  /\ rec.relationship \in {Hierarchical, Causal}
              /\ rec.relationship # Unknown
              /\ FGe(rec.confidence, Dbl(min_confidence))
              /\ Len(rec.association_description) >= 1
    /\ (pc = "analyze_associations" /\ pair_index > 0) =>
          LET term1 == target_terms[term_pairs[pair_index][1]]
              term2 == target_terms[term_pairs[pair_index][2]]
          IN  ~ReachesGate(term1, term2) =>
                 \A k \in 1..Len(association_results) :
                    association_results[k][2].term_association
                       # <<term1, term2>>

\* C5 witness: the mapping holds a record, and the pair just analysed, which
\* no context window brings to the gate, has none
C5_RecordedAndAbsentPairs ==
    /\ pc = "analyze_associations"
    /\ pair_index > 0
    /\ Len(association_results) >= 1
    /\ ~ReachesGate(target_terms[term_pairs[pair_index][1]],
                    target_terms[term_pairs[pair_index][2]])
    /\ \A k \in 1..Len(association_results) :
          association_results[k][2].term_association
             # <<target_terms[term_pairs[pair_index][1]],
                 target_terms[term_pairs[pair_index][2]]>>

\* the records from the k-th on are, in order, pairs among those from the
\* p-th on
RECURSIVE InPairOrder(_, _, _, _)
InPairOrder(records, pairs, k, p) ==
    IF k > Len(records) THEN TRUE
    ELSE IF p > Len(pairs) THEN FALSE
    ELSE IF records[k][2].term_association
               = <<target_terms[pairs[p][1]], target_terms[pairs[p][2]]>>
         THEN InPairOrder(records, pairs, k + 1, p + 1)
         ELSE InPairOrder(records, pairs, k, p + 1)

\* C6: after any number of pairs the keys of the mapping of
\* analyze_associations are R01..Rk without a gap, k being at most the
\* number of pairs analysed, and the records follow the order of their
\* pairs in combinations(terms, 2)
C6_KeysContiguousInPairOrder ==
    pc \in {"analyze_associations", "done"} =>
        /\ Len(association_results) <= pair_index
        /\ \A k \in 1..Len(association_results) :
              association_results[k][1] = OrdinalKey("R", k)
        /\ InPairOrder(association_results,
                       SubSeq(term_pairs, 1, pair_index), 1, 1)

\* C6 witness: of three pairs analysed the first was rejected and the two
\* after it were accepted
C6_RejectedPairLeavesNoGap ==
    /\ pc = "analyze_associations"
    /\ pair_index = 3
    /\ Len(association_results) = 2
    /\ association_results[1][2].term_association
          = <<target_terms[term_pairs[2][1]], target_terms[term_pairs[2][2]]>>
    /\ association_results[1][2].term_association
          # <<target_terms[term_pairs[1][1]], target_terms[term_pairs[1][2]]>>

\* C7: once run_task1 has returned, every requested term whose record has an
\* empty 术语定义 is in the mapping run_task1 returns, under its W key and
\* with the empty definition
C7_EmptyRecordIsReported ==
    ExtractTermsReturned =>
        \A k \in 1..Len(results) :
            results[k][2].term_definition = <<>> =>
                \E e \in 1..Len(task1_results) :
                    /\ task1_results[e][1] = results[k][1]
                    /\ task1_results[e][2].term_definition = <<>>

-----------------------------------------------------------------------------
(* The properties checked of format_page_number (SpecPage). *)

\* the characters of the model
Characters ==
    CleanKeep \cup {"DUN", "-", "~", ".", "'", "/", ":", "\\", "|", "?", "*",
                    "<", ">", "G", "B", "H", "Y", "T"}

\* C10: format_page_number returns a string for every string, formatting
\* its result again returns that result, and 第12页 is returned as it is
C10_FormatPageNumberIdempotent ==
    /\ Len(ret) >= 1 =>
          /\ ret[1] # None
          /\ ret[1] \in Seq(Characters)
    /\ Len(ret) = 2 => ret[2] = ret[1]
    /\ (Len(ret) >= 1 /\ call.page_info = <<"di", "1", "2", "ye">>)
          => ret[1] = <<"di", "1", "2", "ye">>

\* C10 witness: the range 1-2 was formatted to 第1-2页 and then formatted again
C10_RangeFormattedTwice ==
    /\ Len(ret) = 2
    /\ call.page_info = <<"1", "-", "2">>
    /\ ret[1] = <<"di", "1", "-", "2", "ye">>

-----------------------------------------------------------------------------
(* The properties checked of extract_term_definition and the definition     *)
(* confidence (SpecDef).                                                    *)

\* the positions of the terminal marks of a string
TerminalPositions(s) == {k \in 1..Len(s) : s[k] \in Terminal}

\* C3: for the page text 海洋灾害是指由海洋自然环境异常或剧烈变化导致的灾害。
\* and the term 海洋灾害 the matcher returns
\* 由海洋自然环境异常或剧烈变化导致的灾害。 and the scorer gives it at least
\* similarity_threshold (0.8)
C3_ExampleScoresAtThreshold ==
    (call.text = OceanDisasterSentence /\ Len(ret) >= 1) =>
        /\ ret[1] = SubSeq(OceanDisasterSentence, 7, Len(OceanDisasterSentence))
        /\ Len(ret) = 2 => FGe(ret[2], Dbl(similarity_threshold))

\* C8: a definition that extract_term_definition returns holds exactly one
\* terminal mark (。！？), and that mark is its last character
C8_OneTerminalAtTheEnd ==
    (Len(ret) >= 1 /\ ret[1] # None) =>
        /\ Cardinality(TerminalPositions(ret[1])) = 1
        /\ ret[1][Len(ret[1])] \in Terminal

\* C8 witness: a definition was returned from a text that goes on after the
\* terminal mark that ends the definition
C8_TextAfterTheDefinition ==
    /\ Len(ret) >= 1
    /\ ret[1] # None
    /\ Cardinality(TerminalPositions(call.text)) >= 2
    /\ call.text[Len(call.text)] \in Terminal
    /\ Len(ret[1]) >= MinCaptureLen

-----------------------------------------------------------------------------
(* The property checked of analyze_relationship (SpecRel). *)

\* C4: for a context term1 + 会导致 + term2 analyze_relationship returns
\* 因果关系 with a confidence of at least 0.4
C4_WillCauseIsCausal ==
    (Len(ret) = 1
     /\ call.context = call.term1 \o <<"hui", "dao", "zhi4">> \o call.term2) =>
        /\ ret[1][1] = Causal
        /\ FGt(ret[1][2], Dbl(0))
        /\ FGe(ret[1][2], Dbl(4))

-----------------------------------------------------------------------------
(* The canonical page label (SpecPage). *)

\* a decimal integer without leading zeros
IsPageNumber(s) ==
    /\ s # <<>>
    /\ \A k \in 1..Len(s) : s[k] \in Digit
    /\ Len(s) > 1 => s[1] # "0"

\* 第N页 or 第N-M页 with N and M decimal integers without leading zeros
IsCanonicalPageLabel(s) ==
    /\ Len(s) >= 3
    /\ s[1] = "di"
    /\ s[Len(s)] = "ye"
    /\ LET body == SubSeq(s, 2, Len(s) - 1)
       IN  \/ IsPageNumber(body)
           \/ \E k \in 1..Len(body) :
                 /\ body[k] = "-"
                 /\ IsPageNumber(SubSeq(body, 1, k - 1))
                 /\ IsPageNumber(SubSeq(body, k + 1, Len(body)))

\* C11: for every non-empty page_info the result of format_page_number is
\* 第N页 or 第N-M页 with N and M decimal integers without leading zeros
C11_EveryInputIsNormalized ==
    (Len(ret) >= 1 /\ call.page_info # <<>>) => IsCanonicalPageLabel(ret[1])

-----------------------------------------------------------------------------
(* standardize_document_name(filename) and clean_text(text), called as      *)
(* src/test_system.py:46-60 calls them                                      *)

\* the longest file name and text drawn from the alphabets
MaxTextLen == 3

\* a letter, the underscore, the dot and the path separator
NameAlphabet == {"a", "_", ".", "/"}

\* GB_T_39419-2020-海啸等级-2020-11-19.pdf (src/test_system.py:58), a name
\* with two suffixes and a path
NameExamples ==
    {<<"G", "B", "_", "T", "_", "3", "9", "4", "1", "9", "-", "2", "0", "2",
       "0", "-", "hai", "xiao4", "deng", "ji2", "-", "2", "0", "2", "0", "-",
       "1", "1", "-", "1", "9", ".", "p", "d", "f">>,
     <<"a", "_", "b", ".", "t", "a", "r", ".", "g", "z">>,
     <<"d", "_", "x", "/", "a", "_", "b", ".", "p", "d", "f">>}

NameInputs == Strings(NameAlphabet, MaxTextLen) \cup NameExamples

\* a Han character, the space, the newline and the ASCII period
TextAlphabet == {"hai", " ", "\n", "."}

\* "  海洋  灾害 是指...  " (src/test_system.py:47) and a text with a hyphen
\* between spaces
TextExamples ==
    {<<" ", " ", "hai", "yang", " ", " ", "zai", "hai4", " ", "shi", "zhi",
       ".", ".", ".", " ", " ">>,
     <<"hai", " ", "-", " ", "yang">>}

TextInputs == Strings(TextAlphabet, MaxTextLen) \cup TextExamples

InitText ==
    /\ Idle
    /\ call \in {[function |-> "standardize_document_name", filename |-> x] :
                    x \in NameInputs}
               \cup {[function |-> "clean_text", text |-> x] :
                        x \in TextInputs}
    /\ ret = <<>>

\* doc_name = standardize_document_name(...)
StandardizeDocumentName ==
    /\ pc = "call"
    /\ call.function = "standardize_document_name"
    /\ ret = <<>>
    /\ ret' = <<standardize_document_name(call.filename)>>
    /\ UNCHANGED <<pipeline_vars, call>>

\* cleaned = clean_text(test_text)
CleanText ==
    /\ pc = "call"
    /\ call.function = "clean_text"
    /\ ret = <<>>
    /\ ret' = <<clean_text(call.text)>>
    /\ UNCHANGED <<pipeline_vars, call>>

\* clean_text applied to its own result
CleanTextAgain ==
    /\ pc = "call"
    /\ call.function = "clean_text"
    /\ Len(ret) = 1
    /\ ret' = Append(ret, clean_text(ret[1]))
    /\ UNCHANGED <<pipeline_vars, call>>

NextText == StandardizeDocumentName \/ CleanText \/ CleanTextAgain

SpecText == InitText /\ [][NextText]_vars

-----------------------------------------------------------------------------
(* The properties checked of standardize_document_name and clean_text       *)
(* (SpecText).                                                              *)

\* s ends in a file extension: a dot that is not its first character,
\* followed by one or more characters that are neither dots nor separators
EndsInExtension(s) ==
    \E k \in 2..(Len(s) - 1) :
        /\ s[k] = "."
        /\ s[k - 1] # "/"
        /\ \A j \in (k + 1)..Len(s) : s[j] \notin {".", "/"}

\* s without the file extension it ends in
WithoutExtension(s) ==
    IF EndsInExtension(s)
    THEN SubSeq(s, 1, Max({k \in 1..Len(s) : s[k] = "."}) - 1)
    ELSE s

\* C12: standardize_document_name(f) is f without its file extension and
\* with every underscore replaced by a hyphen, nothing else changed, and it
\* does not end in a file extension
C12_ExtensionStrippedUnderscoresReplaced ==
    (Len(ret) = 1 /\ call.function = "standardize_document_name") =>
        /\ ret[1] = Replace(WithoutExtension(call.filename), "_", "-")
        /\ ~EndsInExtension(ret[1])

\* s with each run of whitespace collapsed to one space and both ends trimmed
RECURSIVE WhitespaceNormalized(_)
WhitespaceNormalized(s) ==
    IF s = <<>> THEN <<>>
    ELSE IF Head(s) \in Whitespace
    THEN (IF Len(s) = 1 \/ s[2] \in Whitespace THEN <<>> ELSE <<" ">>)
         \o WhitespaceNormalized(Tail(s))
    ELSE <<Head(s)>> \o WhitespaceNormalized(Tail(s))

\* C13: clean_text only collapses each run of whitespace to one space and
\* trims both ends, keeping every other character (ASCII periods included),
\* so that "  海洋  灾害 是指...  " becomes "海洋 灾害 是指..."
C13_OnlyWhitespaceNormalized ==
    (Len(ret) = 1 /\ call.function = "clean_text") =>
        ret[1] = Strip(WhitespaceNormalized(call.text))

-----------------------------------------------------------------------------
(* src/src/rules.py: ExtractionRules *)

\* the link part of each pattern of ExtractionRules.definition_patterns, in
\* list order: [：:], 是指, 定义为, 为, 即, 指的是, 表示
rule_definition_patterns ==
    << {<<"F:">>, <<":">>}, {<<"shi", "zhi">>}, {<<"ding", "yi", "wei">>},
       {<<"wei">>}, {<<"ji">>}, {<<"zhi", "de", "shi">>},
       {<<"biao", "shi4">>} >>

\* the match of definition pattern n that starts at position s:
\* <<term, definition, end of the match>>, or None.  The term group is
\* greedy: it is the longest token after which the rest of the pattern
\* matches; the definition group ends at the first terminal mark.
RuleDefMatchAt(text, n, s) ==
    With({l \in 1..(RunEndNot(text, s, TermStop) - s) :
            DefMatchAt(text, SubSeq(text, s, s + l - 1),
                       rule_definition_patterns[n], s) # None}, LAMBDA ls :
        IF ls = {} THEN None
        ELSE With(SubSeq(text, s, s + Max(ls) - 1), LAMBDA term :
                <<term,
                  DefMatchAt(text, term, rule_definition_patterns[n], s),
                  RunEndNot(text, s, Terminal) + 1>>))

\* re.finditer(definition_patterns[n], text) from position pos on: the
\* successive non-overlapping matches as [term, definition, pattern], both
\* groups stripped
RECURSIVE RuleDefFindIter(_, _, _)
RuleDefFindIter(text, n, pos) ==
    With({s \in pos..Len(text) : RuleDefMatchAt(text, n, s) # None},
         LAMBDA starts :
            IF starts = {} THEN <<>>
            ELSE With(RuleDefMatchAt(text, n, Min(starts)), LAMBDA m :
                    <<[term |-> Strip(m[1]), definition |-> Strip(m[2]),
                       pattern |-> n]>>
                    \o RuleDefFindIter(text, n, m[3])))

\* the candidates of patterns n.. in list order, without those whose term
\* or definition is too short or too long (rules.py:92)
RECURSIVE RuleDefinitionsFrom(_, _)
RuleDefinitionsFrom(text, n) ==
    IF n > Len(rule_definition_patterns) THEN <<>>
    ELSE SelectSeq(RuleDefFindIter(text, n, 1),
                   LAMBDA d : /\ 2 <= Len(d.term) /\ Len(d.term) <= 50
                              /\ 10 <= Len(d.definition)
                              /\ Len(d.definition) <= 500)
         \o RuleDefinitionsFrom(text, n + 1)

\* ExtractionRules.extract_term_definitions(text)
extract_term_definitions(text) == RuleDefinitionsFrom(text, 1)

-----------------------------------------------------------------------------
(* extraction_rules.extract_term_definitions(test_text)                     *)
(* (src/test_system.py:73-74) and                                           *)
(* self.rules.extract_association_context(page_text, term1, term2)         *)
(* (src/scripts/associate_terms.py:89)                                      *)

\* 海洋
Ocean == <<"hai", "yang">>

\* the terms the texts start with: 海洋灾害, 海洋 and the single character 海
RuleTerms == {OceanDisaster, Ocean, <<"hai">>}

\* what follows the term: 是指, 是指 after a space, 为, and 会, which is no link
RuleLinks == {<<"shi", "zhi">>, <<" ", "shi", "zhi">>, <<"wei">>, <<"hui">>}

\* the bodies of the definitions: the body of the example (19 characters),
\* 9 characters, 8 characters, 9 characters of which the first is a space,
\* a body with a colon and a body with a second 是指
RuleBodies ==
    {SubSeq(OceanDisasterSentence, 7, Len(OceanDisasterSentence) - 1),
     Ocean \o Ocean \o Ocean \o Ocean \o <<"hai">>,
     Ocean \o Ocean \o Ocean \o Ocean,
     <<" ">> \o Ocean \o Ocean \o Ocean \o Ocean,
     Ocean \o <<"F:">> \o OceanDisaster \o <<"de">> \o OceanDisaster,
     <<"zai", "hai4", "shi", "zhi">> \o Ocean \o <<"de">> \o OceanDisaster
        \o <<"de">> \o OceanDisaster}

\* the texts: a term, a link, a body, and a terminal mark or none
RuleTexts ==
    {term \o link \o body \o end :
        term \in RuleTerms, link \in RuleLinks, body \in RuleBodies,
        end \in {<<"F.">>, <<"F!">>, <<>>}}

\* the longest page, in sentences
MaxSentences == 4

\* the sentences of the pages: two that hold both terms of the pair, two
\* that do not
ContextSentences ==
    {StormSurge \o <<"he">> \o Wave, Wave \o <<"yu3">> \o StormSurge,
     StormSurge, <<"hai">>}

\* the pages: up to MaxSentences sentences, each closed by 。
ContextTexts ==
    {Join([k \in 1..Len(ss) |-> ss[k] \o <<"F.">>]) :
        ss \in Strings(ContextSentences, MaxSentences)}

InitRules ==
    /\ Idle
    /\ call \in {[function |-> "extract_term_definitions", text |-> x] :
                    x \in RuleTexts}
               \cup {[function |-> "extract_association_context", text |-> x,
                      term1 |-> StormSurge, term2 |-> Wave] :
                        x \in ContextTexts}
    /\ ret = <<>>

\* definitions = extraction_rules.extract_term_definitions(test_text)
ExtractTermDefinitions ==
    /\ pc = "call"
    /\ call.function = "extract_term_definitions"
    /\ ret = <<>>
    /\ ret' = <<extract_term_definitions(call.text)>>
    /\ UNCHANGED <<pipeline_vars, call>>

\* contexts = self.rules.extract_association_context(...)
ExtractAssociationContext ==
    /\ pc = "call"
    /\ call.function = "extract_association_context"
    /\ ret = <<>>
    /\ ret' = <<extract_association_context(call.text, call.term1,
                                            call.term2)>>
    /\ UNCHANGED <<pipeline_vars, call>>

NextRules == ExtractTermDefinitions \/ ExtractAssociationContext

SpecRules == InitRules /\ [][NextRules]_vars

-----------------------------------------------------------------------------
(* The properties checked of extract_term_definitions and                   *)
(* extract_association_context (SpecRules).                                 *)

\* C14: for a text T + 是指 + D + 。 with T of 2..50 characters without
\* punctuation or whitespace and D of 9..499 characters without a terminal
\* mark, extract_term_definitions returns a non-empty list whose first
\* element has the term T; the candidates are in pattern-list order, and
\* every pattern has the candidate of its leftmost match in the list, whatever
\* the patterns before it matched
C14_FirstCandidateIsTheTerm ==
    (Len(ret) = 1 /\ call.function = "extract_term_definitions") =>
        /\ \A T \in RuleTerms, D \in RuleBodies :
              (/\ call.text = T \o <<"shi", "zhi">> \o D \o <<"F.">>
               /\ 2 <= Len(T) /\ Len(T) <= 50
               /\ \A k \in 1..Len(T) : T[k] \in Han
               /\ 9 <= Len(D) /\ Len(D) <= 499
               /\ \A k \in 1..Len(D) : D[k] \notin Terminal)
              => /\ ret[1] # <<>>
                 /\ ret[1][1].term = T
        /\ \A j, k \in 1..Len(ret[1]) :
              j < k => ret[1][j].pattern <= ret[1][k].pattern
        /\ \A n \in 1..Len(rule_definition_patterns) :
              LET starts == {s \in 1..Len(call.text) :
                                RuleDefMatchAt(call.text, n, s) # None}
                  first == RuleDefMatchAt(call.text, n, Min(starts))
              IN  (/\ starts # {}
                   /\ Len(first[1]) >= 2
                   /\ Len(Strip(first[2])) >= 10)
                  => \E k \in 1..Len(ret[1]) :
                        /\ ret[1][k].pattern = n
                        /\ ret[1][k].term = first[1]

\* the sentences of a page: re.split(r'[。！？]', text)
Sentences(text) == Split(text, Terminal)

\* the window of the sentences index-2 .. index+2 (1-based), joined
\* and stripped
WindowAround(sentences, index) ==
    Strip(Join(SubSeq(sentences, Max({1, index - 2}),
                      Min({Len(sentences), index + 2}))))

\* the indexes of the sentences that hold both terms, in order
BothTermsIndexes(sentences, term1, term2) ==
    SelectSeq([k \in 1..Len(sentences) |-> k],
              LAMBDA k : /\ Contains(sentences[k], term1)
                         /\ Contains(sentences[k], term2))

\* C17: extract_association_context returns, for every sentence that holds
\* both terms, the window of the two sentences before through the two
\* sentences after that very sentence, in sentence order, also when the
\* page holds several identical sentences
C17_WindowAroundEachSentence ==
    (Len(ret) = 1 /\ call.function = "extract_association_context") =>
        LET sentences == Sentences(call.text)
            both == BothTermsIndexes(sentences, call.term1, call.term2)
        IN  ret[1] = [j \in 1..Len(both) |->
                         WindowAround(sentences, both[j])]

-----------------------------------------------------------------------------
(* The body of analyze_relationship step by step (src/src/rules.py:214-229): *)
(* _check_hierarchical_relationship, _check_causal_relationship, and the    *)
(* choice of the relationship type                                          *)

\* the most fragments a context is made of
MaxFragments == 2

\* the fragments of the contexts, for the terms 风暴潮 and 海浪: 风暴潮导致海浪,
\* 风暴潮包括海浪, 海浪属于风暴潮, 风暴潮与海浪的关系, 所以, 因为影响, 类别,
\* 风暴潮包括海浪，风暴潮包含海浪, and 风暴潮导致海浪 four times
ScoreFragments ==
    {StormSurge \o <<"dao", "zhi4">> \o Wave,
     StormSurge \o <<"bao1", "kuo">> \o Wave,
     Wave \o <<"shu", "yu">> \o StormSurge,
     StormSurge \o <<"yu3">> \o Wave \o <<"de", "guan", "xi">>,
     <<"suo", "yi3">>,
     <<"yin", "wei", "ying", "xiang">>,
     <<"lei", "bie">>,
     StormSurge \o <<"bao1", "kuo">> \o Wave \o <<"F,">>
        \o StormSurge \o <<"bao1", "han">> \o Wave,
     StormSurge \o <<"dao", "zhi4">> \o Wave \o <<"F,">>
        \o StormSurge \o <<"dao", "zhi4">> \o Wave \o <<"F,">>
        \o StormSurge \o <<"dao", "zhi4">> \o Wave \o <<"F,">>
        \o StormSurge \o <<"dao", "zhi4">> \o Wave}

\* the contexts: one to MaxFragments fragments with a comma between them
ScoreContexts ==
    {Join([k \in 1..Len(fs) |->
              IF k = 1 THEN fs[k] ELSE <<"F,">> \o fs[k]]) :
        fs \in Strings(ScoreFragments, MaxFragments) \ {<<>>}}

InitScores ==
    /\ Idle
    /\ call \in {[function |-> "check_relationship", term1 |-> StormSurge,
                  term2 |-> Wave, context |-> context] :
                    context \in ScoreContexts}
    /\ ret = <<>>

\* hierarchical_score, hierarchical_desc =
\*     self._check_hierarchical_relationship(term1, term2, context)
CheckHierarchicalRelationship ==
    /\ pc = "call"
    /\ call.function = "check_relationship"
    /\ ret = <<>>
    /\ ret' = <<check_hierarchical_relationship(call.term1, call.term2,
                                                call.context)>>
    /\ UNCHANGED <<pipeline_vars, call>>

\* causal_score, causal_desc =
\*     self._check_causal_relationship(term1, term2, context)
CheckCausalRelationship ==
    /\ pc = "call"
    /\ call.function = "check_relationship"
    /\ Len(ret) = 1
    /\ ret' = Append(ret, check_causal_relationship(call.term1, call.term2,
                                                    call.context))
    /\ UNCHANGED <<pipeline_vars, call>>

\* the relationship type is chosen and analyze_relationship returns
DetermineRelationship ==
    /\ pc = "call"
    /\ call.function = "check_relationship"
    /\ Len(ret) = 2
    /\ ret' = Append(ret, analyze_relationship(call.term1, call.term2,
                                               call.context))
    /\ UNCHANGED <<pipeline_vars, call>>

NextScores ==
    \/ CheckHierarchicalRelationship
    \/ CheckCausalRelationship
    \/ DetermineRelationship

SpecScores == InitScores /\ [][NextScores]_vars

-----------------------------------------------------------------------------
(* The properties checked of the scores and of the choice of the            *)
(* relationship type (SpecScores).                                          *)

\* C15: analyze_relationship returns 主从关系 exactly when the hierarchical
\* score is above the causal score and above 0.5, 因果关系 exactly when the
\* causal score is above the hierarchical score and above 0.5, and otherwise
\* 未知关系 with the larger score as confidence and an empty description;
\* equal scores give 未知关系, and so does a winning score of exactly 0.5
C15_StrictlyHigherScoreAboveHalfWins ==
    Len(ret) = 3 =>
        LET h == ret[1][1]
            c == ret[2][1]
            r == ret[3]
        IN  /\ r[1] \in {Hierarchical, Causal, Unknown}
            /\ r[1] = Hierarchical <=> (FGt(h, c) /\ FGt(h, Dbl(5)))
            /\ r[1] = Causal <=> (FGt(c, h) /\ FGt(c, Dbl(5)))
            /\ r[1] = Hierarchical => r[2] = h /\ r[3] = ret[1][2]
            /\ r[1] = Causal => r[2] = c /\ r[3] = ret[2][2]
            /\ r[1] = Unknown => r[2] = FMax(h, c) /\ r[3] = <<>>
            /\ h = c => r[1] = Unknown
            /\ (FMax(h, c) = Dbl(5)) => r[1] = Unknown

\* C15 witness: both scores are 0.7 and the relationship returned is 未知关系
C15_TieAboveHalfIsUnknown ==
    /\ Len(ret) = 3
    /\ ret[1][1] = ret[2][1]
    /\ ret[1][1] = Dbl(7)
    /\ ret[3] = <<Unknown, Dbl(7), <<>>>>

\* some match of one of the association patterns ns holds both terms in its
\* groups, in either order
PatternMatchesPair(ns, term1, term2, context) ==
    \E n \in ns :
        LET matches == AssocFindIter(context, n, 1)
        IN  \E k \in 1..Len(matches) :
               \/ /\ Contains(matches[k][1], term1)
                  /\ Contains(matches[k][2], term2)
               \/ /\ Contains(matches[k][1], term2)
                  /\ Contains(matches[k][2], term1)

\* the sum of the weights (in tenths) of the conditions that hold, at most 10
WeightedSum(weighted) ==
    LET RECURSIVE sum(_)
        sum(k) == IF k = 0 THEN 0
                  ELSE (IF weighted[k][1] THEN weighted[k][2] ELSE 0)
                       + sum(k - 1)
    IN  Min({10, sum(Len(weighted))})

\* C18: the hierarchical score is 0.3 for a containment keyword, plus 0.3 for
\* a classification keyword, plus 0.2 for a subordination keyword, plus 0.2,
\* once, when a hierarchical pattern (包括/包含, 属于/隶属于, 分为) matches with
\* both terms in its groups, at most 1.0; matches of the causal pattern and
\* of the pattern A与B的关系 add nothing
C18_HierarchicalScoreFormula ==
    Len(ret) >= 1 =>
        ret[1][1] = Dbl(WeightedSum(
            << <<ContainsAny(call.context, hierarchical_keywords.contain), 3>>,
               <<ContainsAny(call.context, hierarchical_keywords.classify), 3>>,
               <<ContainsAny(call.context, hierarchical_keywords.belong), 2>>,
               <<PatternMatchesPair({2, 3, 4}, call.term1, call.term2,
                                    call.context), 2>> >>))

\* the keywords of the group 所以 of causal_keywords: 所以, 因此, 因而, 故而, 于是
ThereforeKeywords ==
    {<<"suo", "yi3">>, <<"yin", "ci3">>, <<"yin", "er">>, <<"gu", "er">>,
     <<"yu", "shi">>}

\* C19: the causal score is 0.4 for a causation keyword, plus 0.3 for a
\* 'because' or a 'therefore' keyword, plus 0.2 for an influence keyword,
\* plus 0.1, once, when a pattern matches with both terms in its groups, at
\* most 1.0
C19_CausalScoreFormula ==
    Len(ret) >= 2 =>
        ret[2][1] = Dbl(WeightedSum(
            << <<ContainsAny(call.context, causal_keywords.cause), 4>>,
               <<\/ ContainsAny(call.context, causal_keywords.because)
                 \/ ContainsAny(call.context, ThereforeKeywords), 3>>,
               <<ContainsAny(call.context, causal_keywords.influence), 2>>,
               <<PatternMatchesPair(1..Len(association_patterns), call.term1,
                                    call.term2, call.context), 1>> >>))

-----------------------------------------------------------------------------
(* TermExtractor._extract_single_term(term, pdf_documents) page by page     *)
(* (src/scripts/extract_terms.py:77-104)                                    *)

\* the corpora of the scans: those of the runs, and every two different
\* documents in either order
ScanCorpora ==
    Corpora \cup {c \in {<<a, b>> : a, b \in DocPool} : c[1] # c[2]}

\* ret holds (best_result, best_confidence) after each page scanned so far,
\* and the value returned once the scan has ended
InitScan ==
    /\ Idle
    /\ call \in {[function |-> "extract_single_term", term |-> term,
                  pdf_documents |-> corpus] :
                    term \in TermPool, corpus \in ScanCorpora}
    /\ ret = <<>>

\* one iteration of the loops over the documents and their pages
\* (lines 80-102)
ScanPage ==
    /\ pc = "call"
    /\ call.function = "extract_single_term"
    /\ Len(ret) < Len(AllPages(call.pdf_documents))
    /\ With(AllPages(call.pdf_documents)[Len(ret) + 1], LAMBDA next :
          ret' = Append(ret,
                        scan_page(IF ret = <<>>
                                  THEN [result |-> NoRecord,
                                        confidence |-> Dbl(0)]
                                  ELSE ret[Len(ret)],
                                  call.term, next.doc, next.page)))
    /\ UNCHANGED <<pipeline_vars, call>>

\* return best_result if best_confidence >= self.similarity_threshold else
\* None (line 104)
ReturnBestResult ==
    /\ pc = "call"
    /\ call.function = "extract_single_term"
    /\ Len(ret) = Len(AllPages(call.pdf_documents))
    /\ ret' = Append(ret, [returned |->
                              extract_single_term(call.term,
                                                  call.pdf_documents)])
    /\ UNCHANGED <<pipeline_vars, call>>

NextScan == ScanPage \/ ReturnBestResult

SpecScan == InitScan /\ [][NextScan]_vars

-----------------------------------------------------------------------------
(* The property checked of the scan (SpecScan). *)

\* the candidate of the k-th page of the scan: its definition and its
\* confidence, or None when the page does not hold the term or yields no
\* definition
PageCandidate(term, pages, k) ==
    LET text == pages[k].page.text
        definition == extract_term_definition(text, term)
    IN  IF ~Contains(text, term) \/ definition \in {None, <<>>} THEN None
        ELSE <<definition, calculate_definition_confidence(definition, term)>>

\* the first of the pages 1..n whose candidate has the highest confidence of
\* these pages, or 0 when none of them has a candidate above 0.0
FirstBestPage(term, pages, n) ==
    LET with == {k \in 1..n :
                    /\ PageCandidate(term, pages, k) # None
                    /\ FGt(PageCandidate(term, pages, k)[2], Dbl(0))}
        best == {k \in with :
                    \A j \in with : FGe(PageCandidate(term, pages, k)[2],
                                        PageCandidate(term, pages, j)[2])}
    IN  IF with = {} THEN 0 ELSE Min(best)

\* C16: after every prefix of the scan (documents in list order, pages in
\* order) the tracked best candidate is the first-seen candidate with the
\* highest confidence among the pages scanned: it has the highest confidence
\* and, among the candidates of that confidence, comes from the earliest
\* document and then the earliest page; this holds at the end of the scan
C16_BestIsFirstSeenMaximum ==
    (call.function = "extract_single_term") =>
        LET pages == AllPages(call.pdf_documents)
        IN  \A n \in 1..Min({Len(ret), Len(pages)}) :
               LET k == FirstBestPage(call.term, pages, n)
               IN  IF k = 0 THEN ret[n].result = NoRecord
                   ELSE /\ ret[n].confidence
                              = PageCandidate(call.term, pages, k)[2]
                        /\ ret[n].result.term_name = call.term
                        /\ ret[n].result.term_definition
                              = PageCandidate(call.term, pages, k)[1]
                        /\ ret[n].result.document_source
                              = standardize_document_name(pages[k].doc.file_name)
                        /\ ret[n].result.document_pages
                              = <<"di">> \o Str(pages[k].page.page_number)
                                 \o <<"ye">>

\* C16 witness: 海浪 has a candidate of confidence 0.5 on page 2 of the first
\* document and another one on page 1 of the second; after three pages and
\* at the end of the scan the candidate of the first document is the best
C16_TieKeepsEarlierDocument ==
    /\ call.function = "extract_single_term"
    /\ call.term = Wave
    /\ call.pdf_documents = <<DocGB1, DocGB2, DocHY3, DocHY4>>
    /\ Len(ret) = 7
    /\ PageCandidate(Wave, AllPages(call.pdf_documents), 2)[2] = Dbl(5)
    /\ PageCandidate(Wave, AllPages(call.pdf_documents), 3)[2] = Dbl(5)
    /\ ret[3].confidence = Dbl(5)
    /\ ret[7].confidence = Dbl(5)
    /\ ret[7].result.document_source = <<"G", "B", "-", "1">>
    /\ ret[7].result.document_pages = <<"di", "2", "ye">>

\* ---------------------------------------------------------------------
\* _calculate_definition_confidence called on its own
\* (scripts/extract_terms.py:106-137): the definitions are built from a
\* head, a body and a tail so that each of the four conditions of the
\* method is met by some inputs and missed by others, the body being
\* empty, just under min_definition_length, or over max_definition_length
\* ---------------------------------------------------------------------
MaxPartLen == 2

ConfidenceDefinitions ==
    {head \o body \o tail :
        head \in Strings({"hai", "wei", "F.", "lang"}, 1),
        body \in {<<>>,
                  [k \in 1..(min_definition_length - 1) |-> "zai"],
                  [k \in 1..(max_definition_length + 1) |-> "zai"]},
        tail \in Strings({"hai", "wei", "F.", "lang"}, MaxPartLen)}

InitConfidence ==
    /\ Idle
    /\ call \in {[function |-> "calculate_definition_confidence",
                  definition |-> d, term |-> t] :
                    d \in ConfidenceDefinitions,
                    t \in {<<>>, <<"hai">>, <<"hai", "lang">>}}
    /\ ret = <<>>

\* confidence = self._calculate_definition_confidence(definition, term)
CalculateConfidence ==
    /\ pc = "call"
    /\ call.function = "calculate_definition_confidence"
    /\ ret = <<>>
    /\ ret' = <<calculate_definition_confidence(call.definition, call.term)>>
    /\ UNCHANGED <<pipeline_vars, call>>

SpecConfidence == InitConfidence /\ [][CalculateConfidence]_vars

\* C20: the confidence of a definition is 0.3 when its length lies in
\* [min_definition_length, max_definition_length], plus 0.2 when it
\* contains the term, plus 0.2 when it ends with one of the three
\* terminal marks, plus 0.3 when it contains one of the six link
\* phrases, capped at 1.0; the result always lies in [0, 1]
C20_DefinitionConfidenceFormula ==
    (call.function = "calculate_definition_confidence" /\ Len(ret) = 1) =>
        LET definition == call.definition
            expected == WeightedSum(<<
                <<10 <= Len(definition) /\ Len(definition) <= 500, 3>>,
                <<Contains(definition, call.term), 2>>,
                <<definition # <<>> /\ definition[Len(definition)] \in Terminal, 2>>,
                <<\E k \in {<<"shi", "zhi">>, <<"ding", "yi", "wei">>,
                            <<"wei">>, <<"ji">>, <<"zhi", "de", "shi">>,
                            <<"biao", "shi4">>} : Contains(definition, k),
                  3>> >>)
        IN  /\ ret[1] = Dbl(expected)
            /\ FGe(ret[1], Dbl(0))
            /\ FLe(ret[1], Dbl(10))

\* a definition of 12 characters that holds the term and a link phrase
\* and ends with a full stop scores exactly 1.0
C20_AllFourBonusesGiveOne ==
    /\ call.function = "calculate_definition_confidence"
    /\ call.term = <<"hai">>
    /\ Len(call.definition) = 12
    /\ SubSeq(call.definition, 11, 12) = <<"wei", "F.">>
    /\ call.definition[1] = "hai"
    /\ ret = <<Dbl(10)>>

-----------------------------------------------------------------------------
(* extract_term_definition on pages of one or two sentences, each made of   *)
(* the term, a link phrase, a body and a full stop (src/src/utils.py:142-   *)
(* 174, called at src/scripts/extract_terms.py:89): the links are those of  *)
(* the five anchored patterns and the two further links of                  *)
(* ExtractionRules.definition_patterns (src/src/rules.py:18-39)             *)

MaxClauses == 2

\* ：, 是指, 定义为, 为, 即, 指的是, 表示
ClauseLinks ==
    {<<"F:">>, <<"shi", "zhi">>, <<"ding", "yi", "wei">>, <<"wei">>,
     <<"ji">>, <<"zhi", "de", "shi">>, <<"biao", "shi4">>}

\* 灾害 / 由海洋自然环境变化 (9 characters) / 由海  洋自然环境 (9 characters
\* with two spaces, 8 after cleaning) / 由海洋自然环境异常变化导致的灾害
ClauseBodies ==
    {<<"zai", "hai4">>,
     <<"you", "hai", "yang", "zi", "ran", "huan", "jing", "bian", "hua">>,
     <<"you", "hai", " ", " ", "yang", "zi", "ran", "huan", "jing">>,
     <<"you", "hai", "yang", "zi", "ran", "huan", "jing", "yi4", "chang",
       "bian", "hua", "dao", "zhi4", "de", "zai", "hai4">>}

ClausePages ==
    {Join(clauses) :
        clauses \in UNION {[1..k -> {OceanDisaster \o link \o body \o <<"F.">> :
                                        link \in ClauseLinks,
                                        body \in ClauseBodies}] :
                              k \in 1..MaxClauses}}

InitClauses ==
    /\ Idle
    /\ call \in {[function |-> "extract_term_definition", text |-> text,
                  term |-> OceanDisaster] : text \in ClausePages}
    /\ ret = <<>>

SpecClauses == InitClauses /\ [][NextDef]_vars

\* the sentences of a page, each with its full stop
PageSentences(text) ==
    LET parts == Split(text, {"F."})
    IN  [k \in 1..(Len(parts) - 1) |-> parts[k] \o <<"F.">>]

\* what follows the term and a link of pattern n in the first sentence of
\* the page that starts with them, or None
FirstCaptureOf(text, term, n) ==
    LET sentences == PageSentences(text)
        heads == {term \o l : l \in definition_patterns[n]}
        starting == {k \in 1..Len(sentences) :
                    \E h \in heads : StartsAt(sentences[k], h, 1)}
        first == sentences[Min(starting)]
        head == CHOOSE h \in heads : StartsAt(first, h, 1)
    IN  IF starting = {} THEN None
        ELSE SubSeq(first, Len(head) + 1, Len(first))

\* the value the claim names for a page: the cleaned capture of the first
\* pattern, in list order, whose capture passes the gate, or None
FirstPassing(text, term, Passes(_)) ==
    LET ok == {n \in 1..Len(definition_patterns) :
                  /\ FirstCaptureOf(text, term, n) # None
                  /\ Passes(FirstCaptureOf(text, term, n))}
    IN  IF ok = {} THEN None
        ELSE clean_text(FirstCaptureOf(text, term, Min(ok)))

C22_EveryLibraryLinkIsMatched ==
    (call.function = "extract_term_definition" /\ Len(ret) >= 1) =>
        \A link \in ClauseLinks, body \in ClauseBodies :
            (/\ Len(body) >= 9
             /\ clean_text(body) = body
             /\ call.text = call.term \o link \o body \o <<"F.">>)
            => ret[1] = body \o <<"F.">>

\* C29: when some sentence of the page starts with the term and the link of
\* an anchored pattern and its capture has at least 10 characters after
\* cleaning, the page yields a definition, also when an earlier sentence
\* with the same link has a shorter capture
C29_LaterOccurrenceIsFound ==
    (call.function = "extract_term_definition" /\ Len(ret) >= 1) =>
        LET sentences == PageSentences(call.text)
        IN  (\E k \in 1..Len(sentences), n \in 1..Len(definition_patterns) :
                \E l \in definition_patterns[n] :
                    LET head == call.term \o l
                    IN  /\ StartsAt(sentences[k], head, 1)
                        /\ Len(clean_text(Strip(SubSeq(sentences[k],
                               Len(head) + 1, Len(sentences[k]))))) >= 10)
            => ret[1] # None

-----------------------------------------------------------------------------
(* The records of a run of the pipeline                                     *)

\* C24: every 文档页数 of a task-1 record and of an evidence entry of a task-2
\* record is 第N页 or 第N-M页, and every 置信度 stored in a record lies in
\* [0, 1]
C24_LabelsCanonicalConfidenceInRange ==
    /\ \A k \in 1..Len(results) :
          IsCanonicalPageLabel(results[k][2].document_pages)
    /\ \A k \in 1..Len(association_results) :
          LET rec == association_results[k][2]
          IN  /\ \A e \in 1..Len(rec.association_description) :
                    IsCanonicalPageLabel(
                        rec.association_description[e].document_pages)
              /\ FGe(rec.confidence, Dbl(0))
              /\ FLe(rec.confidence, Dbl(10))

\* C25: once analyze_associations has handled a pair of which some context
\* window is 主从关系 or 因果关系 with a confidence of at least min_confidence,
\* the mapping holds a record of that pair, whatever the other windows of
\* the pair are
C25_LabelledWindowIsRecorded ==
    (pc = "analyze_associations" /\ pair_index > 0) =>
        LET term1 == target_terms[term_pairs[pair_index][1]]
            term2 == target_terms[term_pairs[pair_index][2]]
        IN  ReachesGate(term1, term2) =>
               \E k \in 1..Len(association_results) :
                  association_results[k][2].term_association
                     = <<term1, term2>>

\* C28: the two strings of 术语关联 differ in every record of
\* analyze_associations, also when the requested list repeats a term
C28_NoRecordRelatesATermToItself ==
    \A k \in 1..Len(association_results) :
        LET pair == association_results[k][2].term_association
        IN  pair[1] # pair[2]

-----------------------------------------------------------------------------
\* C30: clean_text applied to its own result changes nothing, and its result
\* never holds two whitespace characters in a row, also when the text has a
\* removed character between two spaces
C30_CleanTextIdempotent ==
    (call.function = "clean_text" /\ Len(ret) = 2) =>
        /\ ret[2] = ret[1]
        /\ \A k \in 1..(Len(ret[1]) - 1) :
              ~(ret[1][k] \in Whitespace /\ ret[1][k + 1] \in Whitespace)

-----------------------------------------------------------------------------
\* C26: a context without a keyword of containment, classification or
\* subordination and without one of 包括, 包含, 属于, 隶属于, 分为 is never
\* 主从关系, however often 导致, 引起 or 造成 stands between the two terms
C26_NoHierarchyWithoutHierarchicalWords ==
    (/\ call.function = "check_relationship"
     /\ Len(ret) = 3
     /\ ~ContainsAny(call.context, hierarchical_keywords.contain)
     /\ ~ContainsAny(call.context, hierarchical_keywords.classify)
     /\ ~ContainsAny(call.context, hierarchical_keywords.belong)
     /\ ~ContainsAny(call.context,
                     {<<"bao1", "kuo">>, <<"bao1", "han">>,
                      <<"shu", "yu">>, <<"li", "shu", "yu">>,
                      <<"fen", "wei">>}))
    => ret[3][1] # Hierarchical

-----------------------------------------------------------------------------
(* One page analysed for a pair of terms in both orders of the pair:        *)
(* contexts = self.rules.extract_association_context(page_text, term1,      *)
(* term2) and self.rules.analyze_relationship(term1, term2, context) for    *)
(* each window (src/scripts/associate_terms.py:89-95)                       *)

\* 风暴潮导致海浪, 海浪属于风暴潮, 风暴潮与海浪的关系, 因为影响, 类别
SwapFragments ==
    {StormSurge \o <<"dao", "zhi4">> \o Wave,
     Wave \o <<"shu", "yu">> \o StormSurge,
     StormSurge \o <<"yu3">> \o Wave \o <<"de", "guan", "xi">>,
     <<"yin", "wei", "ying", "xiang">>,
     <<"lei", "bie">>}

\* the pages: one to MaxFragments sentences, each ended by a full stop
SwapTexts ==
    {Join([k \in 1..Len(fs) |-> fs[k] \o <<"F.">>]) :
        fs \in Strings(SwapFragments, MaxFragments) \ {<<>>}}

InitSwap ==
    /\ Idle
    /\ call \in {[function |-> "analyze_page", text |-> text,
                  term1 |-> pair[1], term2 |-> pair[2]] :
                    text \in SwapTexts,
                    pair \in {<<StormSurge, Wave>>, <<Wave, CoastErosion>>}}
    /\ ret = <<>>

\* contexts = extract_association_context(page_text, term1, term2)
ExtractContexts ==
    /\ pc = "call"
    /\ call.function = "analyze_page"
    /\ ret = <<>>
    /\ ret' = <<extract_association_context(call.text, call.term1,
                                            call.term2)>>
    /\ UNCHANGED <<pipeline_vars, call>>

\* the same call for the pair in the other order
ExtractContextsSwapped ==
    /\ pc = "call"
    /\ call.function = "analyze_page"
    /\ Len(ret) = 1
    /\ ret' = Append(ret, extract_association_context(call.text, call.term2,
                                                      call.term1))
    /\ UNCHANGED <<pipeline_vars, call>>

\* analyze_relationship(term1, term2, context) for each window
AnalyzeContexts ==
    /\ pc = "call"
    /\ call.function = "analyze_page"
    /\ Len(ret) = 2
    /\ ret' = Append(ret, [k \in 1..Len(ret[1]) |->
                              analyze_relationship(call.term1, call.term2,
                                                   ret[1][k])])
    /\ UNCHANGED <<pipeline_vars, call>>

\* the same calls for the pair in the other order
AnalyzeContextsSwapped ==
    /\ pc = "call"
    /\ call.function = "analyze_page"
    /\ Len(ret) = 3
    /\ ret' = Append(ret, [k \in 1..Len(ret[2]) |->
                              analyze_relationship(call.term2, call.term1,
                                                   ret[2][k])])
    /\ UNCHANGED <<pipeline_vars, call>>

NextSwap ==
    \/ ExtractContexts
    \/ ExtractContextsSwapped
    \/ AnalyzeContexts
    \/ AnalyzeContextsSwapped

SpecSwap == InitSwap /\ [][NextSwap]_vars

\* C27: with the two terms swapped extract_association_context returns the
\* same windows, and analyze_relationship the same label and the same
\* confidence for each of them
C27_SwappedTermsSameResult ==
    call.function = "analyze_page" =>
        /\ Len(ret) >= 2 => ret[2] = ret[1]
        /\ Len(ret) = 4 =>
              /\ Len(ret[4]) = Len(ret[3])
              /\ \A k \in 1..Len(ret[3]) :
                    /\ ret[4][k][1] = ret[3][k][1]
                    /\ ret[4][k][2] = ret[3][k][2]

\* a page with a window that is 因果关系 in both orders of the pair, with
\* a description that names the terms in the order given
C27_CausalInBothOrders ==
    /\ call.function = "analyze_page"
    /\ Len(ret) = 4
    /\ \E k \in 1..Len(ret[3]) :
          /\ ret[3][k][1] = Causal
          /\ ret[4][k][1] = Causal
          /\ ret[3][k][3] # ret[4][k][3]

-----------------------------------------------------------------------------
(* The evaluations of extract_terms and of analyze_associations taken in    *)
(* any order and interleaved page by page and window by window, then put    *)
(* back in request order.  best_result and best_confidence                  *)
(* (src/scripts/extract_terms.py:77-78) and best_association and            *)
(* best_confidence (src/scripts/associate_terms.py:77-78) are locals of     *)
(* each call; call holds them for every evaluation under way.               *)

\* locals kept in one place for all evaluations, as attributes of the
\* extractor would be
EvaluationLocalsShared(k) == 1

\* the locals that evaluation k reads and writes: its own
EvaluationLocals(k) == k

AnyOrderTermLists ==
    {<<StormSurge, Wave>>, <<Wave, StormSurge, Wave>>,
     <<StormSurge, CoastErosion, Wave>>}

AnyOrderCorpora == {<<DocHY3>>, <<DocGB1, DocHY3>>, <<DocHY4, DocHY3>>}

InitAnyOrder ==
    /\ target_terms \in AnyOrderTermLists
    /\ pdf_documents \in AnyOrderCorpora
    /\ pc = "any_order_terms"
    /\ i = 0
    /\ results = <<>>
    /\ task1_results = <<>>
    /\ pair_index = 0
    /\ association_count = 0
    /\ association_results = <<>>
    /\ task2_results = <<>>
    /\ run = 1
    /\ first_run = NoRecord
    /\ call = [function |-> "any_order",
               page |-> [k \in 1..Len(target_terms) |-> 0],
               best |-> [k \in 1..Len(target_terms) |->
                            [result |-> NoRecord, confidence |-> Dbl(0)]],
               context |-> [p \in 1..Len(term_pairs) |-> 0],
               best_association |->
                   [p \in 1..Len(term_pairs) |->
                       [association |-> NoRecord, confidence |-> Dbl(0)]]]
    /\ ret = <<>>

\* the evaluation of some term handles its next page
\* (_extract_single_term, lines 80-102)
AnyTermScansPage ==
    /\ pc = "any_order_terms"
    /\ \E k \in 1..Len(target_terms) :
          /\ call.page[k] < Len(AllPages(pdf_documents))
          /\ With(AllPages(pdf_documents)[call.page[k] + 1], LAMBDA next :
                call' = [call EXCEPT
                            !.page[k] = @ + 1,
                            !.best[EvaluationLocals(k)] =
                                scan_page(call.best[EvaluationLocals(k)],
                                          target_terms[k], next.doc,
                                          next.page)])
    /\ UNCHANGED <<pipeline_vars, ret>>

\* every evaluation has returned (line 104) and the records are stored under
\* the keys of the request order (extract_terms, lines 46-61)
StoreTermsInRequestOrder ==
    /\ pc = "any_order_terms"
    /\ \A k \in 1..Len(target_terms) :
          call.page[k] = Len(AllPages(pdf_documents))
    /\ results' =
          [k \in 1..Len(target_terms) |->
              <<TermKey(k),
                With(call.best[EvaluationLocals(k)], LAMBDA best :
                    IF /\ FGe(best.confidence, Dbl(similarity_threshold))
                       /\ best.result # NoRecord
                    THEN best.result
                    ELSE [term_name |-> target_terms[k],
                          term_definition |-> <<>>,
                          document_source |-> <<>>,
                          document_pages |-> <<>>])>>]
    /\ pc' = "any_order_pairs"
    /\ UNCHANGED <<target_terms, pdf_documents, i, task1_results, pair_index,
                   association_count, association_results, task2_results,
                   run, first_run, call, ret>>

\* the windows the evaluation of pair p visits
PairContexts(p) ==
    AllContexts(target_terms[term_pairs[p][1]],
                target_terms[term_pairs[p][2]], pdf_documents)

\* the evaluation of some pair handles its next context window
\* (_analyze_term_pair_association, lines 91-108)
AnyPairScansContext ==
    /\ pc = "any_order_pairs"
    /\ \E p \in 1..Len(term_pairs) :
          /\ call.context[p] < Len(PairContexts(p))
          /\ With(PairContexts(p)[call.context[p] + 1], LAMBDA next :
                call' = [call EXCEPT
                            !.context[p] = @ + 1,
                            !.best_association[EvaluationLocals(p)] =
                                scan_context(
                                    call.best_association[EvaluationLocals(p)],
                                    target_terms[term_pairs[p][1]],
                                    target_terms[term_pairs[p][2]],
                                    next.doc, next.page, next.context)])
    /\ UNCHANGED <<pipeline_vars, ret>>

\* the mapping of analyze_associations after the first n pairs, from the
\* results of the pairs (lines 51-56): <<association_count, results>>
RECURSIVE CollectAssociations(_, _)
CollectAssociations(found, n) ==
    IF n = 0 THEN <<0, <<>>>>
    ELSE With(CollectAssociations(found, n - 1), LAMBDA before :
            IF IsAssociation(found[n])
            THEN <<before[1] + 1,
                   DictSet(before[2], ResultKey(before[1] + 1), found[n])>>
            ELSE before)

\* every evaluation has returned and the accepted pairs are numbered in the
\* order of the combinations (analyze_associations, lines 51-59)
StorePairsInCombinationOrder ==
    /\ pc = "any_order_pairs"
    /\ \A p \in 1..Len(term_pairs) : call.context[p] = Len(PairContexts(p))
    /\ With(CollectAssociations(
               [p \in 1..Len(term_pairs) |->
                   call.best_association[EvaluationLocals(p)].association],
               Len(term_pairs)), LAMBDA collected :
          /\ association_count' = collected[1]
          /\ association_results' = collected[2])
    /\ pc' = "any_order_done"
    /\ UNCHANGED <<target_terms, pdf_documents, i, results, task1_results,
                   pair_index, task2_results, run, first_run, call, ret>>

NextAnyOrder ==
    \/ AnyTermScansPage
    \/ StoreTermsInRequestOrder
    \/ AnyPairScansContext
    \/ StorePairsInCombinationOrder

SpecAnyOrder == InitAnyOrder /\ [][NextAnyOrder]_vars

\* what the sequential loop of extract_terms returns
SequentialTermResults ==
    [k \in 1..Len(target_terms) |->
        <<TermKey(k), TermRecord(target_terms[k], pdf_documents)>>]

\* what the sequential loop of analyze_associations returns
SequentialAssociationResults ==
    CollectAssociations(
        [p \in 1..Len(term_pairs) |->
            analyze_term_pair_association(target_terms[term_pairs[p][1]],
                                          target_terms[term_pairs[p][2]],
                                          pdf_documents)],
        Len(term_pairs))[2]

\* C23: the evaluations of the terms, and those of the pairs, taken in any
\* order and interleaved, give after re-sequencing exactly the mappings of
\* the sequential run; the record of a term is that of the term and the
\* corpus alone
C23_AnyOrderGivesSequentialOutput ==
    /\ pc \in {"any_order_pairs", "any_order_done"} =>
          results = SequentialTermResults
    /\ pc = "any_order_done" =>
          association_results = SequentialAssociationResults

\* the end of a run for 海浪, 风暴潮, 海浪: both mappings hold a record, and
\* the term requested twice has the same record under both of its keys
C23_RepeatedTermSameRecord ==
    /\ pc = "any_order_done"
    /\ target_terms = <<Wave, StormSurge, Wave>>
    /\ results[1][2] = results[3][2]
    /\ results[2][2].term_definition # <<>>
    /\ Len(association_results) >= 1

====
